---- MODULE Spec2Model ----
(***************************************************************************)
(* A model of the resolution engine of Job-Board-Scraper: the ATS          *)
(* classifier (discovery/classify.ts), the jobs-URL discovery cascade      *)
(* (discovery/jobsDiscovery.ts), the search fallback with its cache and    *)
(* circuit breaker (discovery/webResearch), and the HTTP client with its   *)
(* per-host rate limiter (utils/http.ts).                                  *)
(*                                                                         *)
(* Strings that the code matches with regular expressions are modelled as  *)
(* sequences of tokens; a regular expression that searches for a literal   *)
(* is a search for a contiguous run of tokens.  Every subsystem has its    *)
(* own variables and its own specification; a specification keeps the     *)
(* variables of the other subsystems at their idle values.                 *)
(***************************************************************************)
EXTENDS Integers, Sequences, FiniteSets, TLC

VARIABLES
    cls,                    \* one call of classifyJobsSource
    SEARCH_CACHE,           \* webResearch: Map<string, string[]>
    braveSearchUnavailable, \* webResearch: the circuit breaker
    callers,                \* concurrent calls of resolve*ViaSearch
    disc,                   \* one call of discoverJobsUrl
    queueByDomain,          \* DomainRateLimiter.queueByDomain
    promises,               \* the promises the limiter created
    tasks,                  \* calls of DomainRateLimiter.schedule
    scheduleOrder,          \* per domain, the order schedule was called in
    startOrder,             \* per domain, the order the tasks started in
    req,                    \* one call of HttpClient.request / requestMaybe
    batch,                  \* one call of mapWithConcurrency over processOrg
    res,                    \* one call of resolveHomepageViaSearch / resolveJobsViaSearch
    norm,                   \* one URL given to the three URL normalisers
    twin,                   \* two calls of discoverJobsUrl with the same answers
    mon,                    \* one run of runWeeklyPipeline
    sheet,                  \* one call of syncPostingsToGoogleSheet
    db                      \* PostingsDatabase over a sequence of weekly runs

vars == <<db, sheet, mon, twin, norm, res, batch, cls, SEARCH_CACHE, braveSearchUnavailable, callers, disc,
          queueByDomain, promises, tasks, scheduleOrder, startOrder, req>>

(***************************************************************************)
(* Generic helpers.                                                        *)
(***************************************************************************)

\* s contains pat as a contiguous run (String.prototype.includes / RegExp.test
\* for a literal pattern).
Contains(s, pat) ==
    \E i \in 1..(Len(s) - Len(pat) + 1) :
        \A j \in 1..Len(pat) : s[i + j - 1] = pat[j]

Min(a, b) == IF a < b THEN a ELSE b

(***************************************************************************)
(* URLs.  A URL string is a record; Tokens gives the string itself.        *)
(*   kind  "url" (parses with new URL), "bad" (does not parse), "empty"    *)
(*   host  the hostname, as tokens                                         *)
(*   segs  the path segments                                               *)
(*   slash a trailing slash after the last segment                         *)
(*   utm   the value of a utm_source parameter ("" when there is none)     *)
(*   frag  a fragment                                                      *)
(***************************************************************************)

MkUrl(host, segs, slash, utm, frag) ==
    [kind |-> "url", host |-> host, segs |-> segs, slash |-> slash,
     utm |-> utm, frag |-> frag]

EmptyUrl == [kind |-> "empty", host |-> <<>>, segs |-> <<>>, slash |-> FALSE,
             utm |-> "", frag |-> FALSE]

BadUrl == [kind |-> "bad", host |-> <<>>, segs |-> <<>>, slash |-> FALSE,
           utm |-> "", frag |-> FALSE]

RECURSIVE PathTokens(_)
PathTokens(segs) ==
    IF segs = <<>> THEN <<>> ELSE <<"/", Head(segs)>> \o PathTokens(Tail(segs))

\* The text of a URL string.
Tokens(u) ==
    CASE u.kind = "empty" -> <<>>
      [] u.kind = "bad"   -> <<"http://[">>
      [] OTHER ->
            <<"https://">> \o u.host \o PathTokens(u.segs)
            \o (IF u.segs = <<>> \/ u.slash THEN <<"/">> ELSE <<>>)
            \o (IF u.utm # "" THEN <<"?utm_source=", u.utm>> ELSE <<>>)
            \o (IF u.frag THEN <<"#", "top">> ELSE <<>>)

\* cleanUrl: tracking parameters and the fragment are dropped and a trailing
\* slash of a non-root path is removed; a string that does not parse is
\* returned trimmed, the empty string stays empty.
cleanUrl(u) ==
    IF u.kind # "url" THEN u
    ELSE [u EXCEPT !.utm = "", !.frag = FALSE, !.slash = FALSE]

\* looksLikePdf: /\.pdf($|[?#])/i
looksLikePdf(u) ==
    LET s == Tokens(u) IN
    \E i \in 1..Len(s) :
        /\ s[i] = "doc.pdf"
        /\ (i = Len(s) \/ s[i + 1] \in {"?utm_source=", "#"})

Hosts ==
    { <<"town.ca">>,
      <<"x.", "myworkdayjobs.com">>, <<"x.", "taleo.net">>, <<"x.", "icims.com">>,
      <<"www.", "governmentjobs.com">>, <<"x.", "neogov.com">>,
      <<"x.", "dayforcehcm.com">>, <<"x.", "bamboohr.com">>,
      <<"x.", "paycomonline.net">> }

Paths ==
    { <<>>, <<"careers">>, <<"jobs">>, <<"careersection">>, <<"wday", "cxs">>,
      <<"doc.pdf">> }

UtmValues == {"", "icims.com"}

Urls ==
    { MkUrl(h, p, s, q, f) :
        h \in Hosts, p \in Paths, s \in BOOLEAN, q \in UtmValues, f \in {FALSE} }

(***************************************************************************)
(* discovery/classify.ts                                                   *)
(***************************************************************************)

\* ATS_PATTERNS, in table order: the literals of each entry's regular
\* expression, with the (jobsSourceType, adapter) pair of the entry.
ATS_PATTERNS ==
    << [alts |-> {<<"myworkdayjobs.com">>, <<"/", "wday", "/", "cxs", "/">>},
        jobsSourceType |-> "ats_workday", adapter |-> "workday"],
       [alts |-> {<<"taleo.net">>, <<"/", "careersection", "/">>},
        jobsSourceType |-> "ats_taleo", adapter |-> "taleo"],
       [alts |-> {<<"icims.com">>},
        jobsSourceType |-> "ats_icims", adapter |-> "icims"],
       [alts |-> {<<"governmentjobs.com">>, <<"neogov.com">>},
        jobsSourceType |-> "ats_neogov", adapter |-> "neogov"],
       [alts |-> {<<"dayforcehcm.com">>},
        jobsSourceType |-> "ats_dayforce", adapter |-> "dayforce"],
       [alts |-> {<<"bamboohr.com", "/", "jobs", "/">>},
        jobsSourceType |-> "ats_bamboohr", adapter |-> "bamboohr"],
       [alts |-> {<<"paycomonline.net">>},
        jobsSourceType |-> "ats_paycom", adapter |-> "paycom"] >>

\* pattern.test(value)
PatternTest(pattern, value) == \E alt \in pattern.alts : Contains(value, alt)

NoResult == [jobsSourceType |-> "none", adapter |-> "none", confidence |-> 0]

MkResult(t, a, c) == [jobsSourceType |-> t, adapter |-> a, confidence |-> c]

\* Confidence is written in hundredths: 100 is 1.0, 80 is 0.8, 50 is 0.5.
GenericManualReview == MkResult("manual_review", "manual", 0)

GenericUnknown == MkResult("unknown", "generic_dom", 50)

\* The table walked the wrong way round (last match wins).
RECURSIVE classifyFromStringLastWins(_, _)
classifyFromStringLastWins(value, i) ==
    IF i > Len(ATS_PATTERNS) THEN NoResult
    ELSE LET rest == classifyFromStringLastWins(value, i + 1) IN
         IF rest # NoResult THEN rest
         ELSE IF PatternTest(ATS_PATTERNS[i], value)
              THEN MkResult(ATS_PATTERNS[i].jobsSourceType, ATS_PATTERNS[i].adapter, 100)
              ELSE NoResult

\* classifyFromString: the loop over ATS_PATTERNS from entry i on; the first
\* entry whose pattern matches decides.  NoResult stands for null.
RECURSIVE classifyFromStringFrom(_, _)
classifyFromStringFrom(value, i) ==
    IF i > Len(ATS_PATTERNS) THEN NoResult
    ELSE IF PatternTest(ATS_PATTERNS[i], value)
         THEN MkResult(ATS_PATTERNS[i].jobsSourceType, ATS_PATTERNS[i].adapter, 100)
         ELSE classifyFromStringFrom(value, i + 1)

\* the table read from its last entry to its first
classifyFromStringReversed(value) == classifyFromStringLastWins(value, 1)

classifyFromString(value) == classifyFromStringFrom(value, 1)

isKnownAtsUrl(u) ==
    \E i \in 1..Len(ATS_PATTERNS) : PatternTest(ATS_PATTERNS[i], Tokens(u))


\* The tokens in which each literal of CONTENT_MARKERS occurs as a substring.
MarkerTokens(literal) ==
    CASE literal = "workday"        -> {"workday", "myworkdayjobs.com"}
      [] literal = "icims"          -> {"icims", "icims.com"}
      [] literal = "taleo"          -> {"taleo", "taleo.net"}
      [] literal = "neogov"         -> {"neogov", "neogov.com"}
      [] literal = "governmentjobs" -> {"governmentjobs", "governmentjobs.com"}
      [] literal = "dayforce"       -> {"dayforce", "dayforcehcm.com"}
      [] literal = "bamboohr"       -> {"bamboohr", "bamboohr.com"}
      [] literal = "paycom"         -> {"paycom", "paycomonline.net"}

\* CONTENT_MARKERS, in table order.
CONTENT_MARKERS ==
    << [literals |-> {"workday"}, jobsSourceType |-> "ats_workday", adapter |-> "workday"],
       [literals |-> {"icims"}, jobsSourceType |-> "ats_icims", adapter |-> "icims"],
       [literals |-> {"taleo"}, jobsSourceType |-> "ats_taleo", adapter |-> "taleo"],
       [literals |-> {"neogov", "governmentjobs"},
        jobsSourceType |-> "ats_neogov", adapter |-> "neogov"],
       [literals |-> {"dayforce"}, jobsSourceType |-> "ats_dayforce", adapter |-> "dayforce"],
       [literals |-> {"bamboohr"}, jobsSourceType |-> "ats_bamboohr", adapter |-> "bamboohr"],
       [literals |-> {"paycom"}, jobsSourceType |-> "ats_paycom", adapter |-> "paycom"] >>

\* marker.marker.test(value)
MarkerTest(marker, value) ==
    \E i \in 1..Len(value) : \E l \in marker.literals : value[i] \in MarkerTokens(l)

RECURSIVE classifyFromContentMarkersFrom(_, _)
classifyFromContentMarkersFrom(value, i) ==
    IF i > Len(CONTENT_MARKERS) THEN NoResult
    ELSE IF MarkerTest(CONTENT_MARKERS[i], value)
         THEN MkResult(CONTENT_MARKERS[i].jobsSourceType, CONTENT_MARKERS[i].adapter, 100)
         ELSE classifyFromContentMarkersFrom(value, i + 1)

classifyFromContentMarkers(value) == classifyFromContentMarkersFrom(value, 1)

(***************************************************************************)
(* A fetched or rendered document.  What cheerio and the keyword tests     *)
(* read from the HTML is given by counts:                                  *)
(*   text           the words of the document that a marker can hit        *)
(*   anchors        $('a[href]').length                                    *)
(*   relevantLinks  anchors whose text or href matches the job keywords    *)
(*   keywordHits    distinct list keywords in the body text (of 7)         *)
(*   postingMarkers occurrences of the strong posting markers              *)
(*   careerKeywords distinct CAREER_KEYWORDS in the raw HTML (of 6)        *)
(***************************************************************************)

MaxLinks == 3
MaxPostingMarkers == 3

MkBody(text, anchors, relevantLinks, keywordHits, postingMarkers, careerKeywords) ==
    [text |-> text, anchors |-> anchors, relevantLinks |-> relevantLinks,
     keywordHits |-> keywordHits, postingMarkers |-> postingMarkers,
     careerKeywords |-> careerKeywords]

EmptyBody == MkBody(<<>>, 0, 0, 0, 0, 0)

BodyTexts == { <<>>, <<"taleo", "icims">> }

\* Bodies around the thresholds of the shape tests; a body without relevant
\* links has no anchor at all or one irrelevant anchor.
Bodies ==
    { MkBody(t, IF r = 0 THEN a ELSE r, r, k, p, c) :
        t \in BodyTexts, a \in {0, 1}, r \in 0..MaxLinks,
        k \in {2, 3}, p \in {0, MaxPostingMarkers}, c \in {1, 2} }

WellFormedBodies == Bodies \cup {EmptyBody}

looksLikeHtmlListAnyRelevantLink(html) ==
    IF html.anchors = 0 THEN FALSE
    ELSE html.relevantLinks >= 1 \/ html.postingMarkers >= 3

looksLikeHtmlList(html) ==
    IF html.anchors = 0 THEN FALSE
    ELSE \/ html.relevantLinks >= 3
         \/ (html.relevantLinks >= 2 /\ html.keywordHits >= 3)
         \/ html.postingMarkers >= 3

looksGenericCareersPage(html) == html.careerKeywords >= 2

(***************************************************************************)
(* utils/http.ts seen from its callers: requestMaybe answers with a        *)
(* response or with null (NoResponse).                                     *)
(***************************************************************************)

MkResponse(status, url, body, contentTypePdf) ==
    [ok |-> TRUE, status |-> status, url |-> url, body |-> body,
     contentTypePdf |-> contentTypePdf]

NoResponse ==
    [ok |-> FALSE, status |-> 0, url |-> EmptyUrl, body |-> EmptyBody,
     contentTypePdf |-> FALSE]


(***************************************************************************)
(* classifyJobsSource (classify.ts 126-230) as a process: one step per     *)
(* await.                                                                  *)
(***************************************************************************)

Returned(v) == [kind |-> "return", value |-> v]
Thrown == [kind |-> "throw", value |-> NoResult]
Pending == [kind |-> "none", value |-> NoResult]

ClassifyInputs == Urls \cup {EmptyUrl, BadUrl}

\* What requestMaybe(jobsUrl) can answer.  request cleans the URL first; a
\* string that new URL rejects fails every attempt, so the answer is null.
\* Otherwise the answer is null or a response whose final URL is the URL
\* asked for or a redirect target.
RedirectTargets ==
    { MkUrl(<<"x.", "icims.com">>, <<"jobs">>, FALSE, "", FALSE),
      MkUrl(<<"town.ca">>, <<"doc.pdf">>, FALSE, "", FALSE) }

Statuses == {200, 404}

FetchAnswers(u) ==
    IF cleanUrl(u).kind # "url" THEN {NoResponse}
    ELSE {NoResponse} \cup
         { MkResponse(st, f, b, ct) :
             st \in Statuses, f \in {cleanUrl(u)} \cup RedirectTargets,
             b \in WellFormedBodies, ct \in BOOLEAN }

\* the steps of lines 137-171 with the html_list test before the PDF test
ClassifyResponseListBeforePdf(response) ==
    LET byFinalUrl == classifyFromString(Tokens(response.url))
        markerCandidate ==
            classifyFromContentMarkers(Tokens(response.url) \o <<"\n">> \o response.body.text)
    IN  IF ~response.ok THEN NoResult
        ELSE IF byFinalUrl # NoResult THEN byFinalUrl
        ELSE IF markerCandidate # NoResult THEN markerCandidate
        ELSE IF looksLikeHtmlList(response.body) THEN MkResult("html_list", "html_list", 80)
        ELSE IF looksLikePdf(response.url) \/ response.contentTypePdf
             THEN MkResult("pdf", "pdf", 50)
        ELSE IF looksGenericCareersPage(response.body) THEN GenericUnknown
        ELSE NoResult

\* Lines 137-171: what a response decides; NoResult when it falls through.
ClassifyResponse(response) ==
    LET byFinalUrl == classifyFromString(Tokens(response.url))
        markerCandidate ==
            classifyFromContentMarkers(Tokens(response.url) \o <<"\n">> \o response.body.text)
    IN  IF ~response.ok THEN NoResult
        ELSE IF byFinalUrl # NoResult THEN byFinalUrl
        ELSE IF markerCandidate # NoResult THEN markerCandidate
        ELSE IF looksLikePdf(response.url) \/ response.contentTypePdf
             THEN MkResult("pdf", "pdf", 50)
        ELSE IF looksLikeHtmlList(response.body) THEN MkResult("html_list", "html_list", 80)
        ELSE IF looksGenericCareersPage(response.body) THEN GenericUnknown
        ELSE NoResult

\* A rendered page: page.url(), page.content() and the request URLs the page
\* issued (their text, and how many match the network-hint keywords).
MaxNetworkHints == 3

MkRendered(url, html, requestText, networkHints) ==
    [url |-> url, html |-> html, requestText |-> requestText,
     networkHints |-> networkHints]

RenderedPages(u) ==
    { MkRendered(f, b, rt, n) :
        f \in {cleanUrl(u)} \cup RedirectTargets,
        b \in WellFormedBodies,
        rt \in {<<>>, <<"x.", "paycomonline.net">>},
        n \in {0, MaxNetworkHints} }

\* Lines 188-217: what the rendered page decides; NoResult when it falls
\* through to the terminal fallback.
ClassifyRendered(rendered) ==
    LET byFinal == classifyFromString(Tokens(rendered.url))
        byContent ==
            classifyFromContentMarkers(
                Tokens(rendered.url) \o <<"\n">> \o rendered.html.text
                \o <<"\n">> \o rendered.requestText)
    IN  IF byFinal # NoResult THEN byFinal
        ELSE IF byContent # NoResult THEN byContent
        ELSE IF rendered.networkHints >= 3 \/ looksLikeHtmlList(rendered.html)
             THEN MkResult("html_list", "html_list", 80)
        ELSE IF looksGenericCareersPage(rendered.html) THEN GenericUnknown
        ELSE NoResult

ClsIdle ==
    [pc |-> "idle", jobsUrl |-> EmptyUrl, browser |-> FALSE, httpRequests |-> 0,
     pagesOpened |-> 0, response |-> NoResponse, fetched |-> FALSE,
     rendered |-> FALSE, html |-> EmptyBody, networkHints |-> 0,
     failures |-> {}, pending |-> NoResult, result |-> Pending]

ClsInit ==
    cls \in { [ClsIdle EXCEPT !.pc = "start", !.jobsUrl = u, !.browser = b] :
                u \in ClassifyInputs, b \in BOOLEAN }

\* The step that follows the fetch when it decided nothing (lines 173-229).
ClsAfterFetch(c) ==
    IF c.browser
    THEN [c EXCEPT !.pc = "newPage"]
    ELSE [c EXCEPT !.pc = "done", !.result = Returned(GenericUnknown)]

\* Line 131: const direct = classifyFromString(jobsUrl).
ClsDirect(u) == classifyFromString(Tokens(u))

\* Lines 131-136: the URL itself decides, or the fetch is issued.
ClassifyStart ==
    /\ cls.pc = "start"
    /\ LET direct == ClsDirect(cls.jobsUrl) IN
       IF direct # NoResult
       THEN cls' = [cls EXCEPT !.pc = "done", !.result = Returned(direct)]
       ELSE cls' = [cls EXCEPT !.pc = "fetch", !.httpRequests = @ + 1]

\* Lines 136-171: requestMaybe answers.
ClassifyFetched ==
    /\ cls.pc = "fetch"
    /\ \E response \in FetchAnswers(cls.jobsUrl) :
         LET decided == ClassifyResponse(response)
             c == [cls EXCEPT !.response = response, !.fetched = response.ok,
                              !.failures = IF response.ok THEN @ ELSE @ \cup {"fetch"}]
         IN  IF decided # NoResult
             THEN cls' = [c EXCEPT !.pc = "done", !.result = Returned(decided)]
             ELSE cls' = ClsAfterFetch(c)

\* Line 174: browser.newPage() resolves or rejects; it is outside the try.
ClassifyNewPage ==
    /\ cls.pc = "newPage"
    /\ \/ cls' = [cls EXCEPT !.pc = "goto", !.pagesOpened = @ + 1]
       \/ cls' = [cls EXCEPT !.pc = "done", !.result = Thrown,
                             !.failures = @ \cup {"newPage"}]

\* Lines 218-222: catch { fall through to unknown }, then the finally block.
ClsNavigationFailed(c) ==
    [c EXCEPT !.pc = "close", !.pending = NoResult, !.failures = @ \cup {"goto"}]

\* Lines 180-219: page.goto and the reads of the page; any rejection is caught
\* and falls through; a failing waitForLoadState is ignored.
ClassifyRender ==
    /\ cls.pc = "goto"
    /\ \/ cls' = ClsNavigationFailed(cls)
       \/ \E rendered \in RenderedPages(cls.jobsUrl) :
            /\ cleanUrl(cls.jobsUrl).kind = "url"
            /\ cls' = [cls EXCEPT !.pc = "close", !.rendered = TRUE,
                                  !.html = rendered.html,
                                  !.networkHints = rendered.networkHints,
                                  !.pending = ClassifyRendered(rendered)]

\* Lines 220-229: finally { await page.close() }; a rejection of close
\* replaces the pending return.
ClassifyClose ==
    /\ cls.pc = "close"
    /\ \/ cls' = [cls EXCEPT !.pc = "done",
                    !.result = IF cls.pending # NoResult THEN Returned(cls.pending)
                               ELSE Returned(GenericUnknown)]
       \/ cls' = [cls EXCEPT !.pc = "done", !.result = Thrown,
                             !.failures = @ \cup {"close"}]

ClsNext == ClassifyStart \/ ClassifyFetched \/ ClassifyNewPage \/ ClassifyRender \/ ClassifyClose


(***************************************************************************)
(* The search fallback (webResearch): SEARCH_CACHE, braveSearchUnavailable *)
(* and searchBraveCandidates, called from the query loops of               *)
(* resolveHomepageViaSearch and resolveJobsViaSearch by concurrent         *)
(* organization resolutions.  A query is a sequence of characters.         *)
(***************************************************************************)

NumCallers == 2
MaxResults == 1

Callers == 1..NumCallers

\* Two spellings of one query, another query, and a blank one.
RawQueries == { <<"a">>, <<" ", "A", " ", " ">>, <<"b">>, <<" ">> }

\* value.replace(/\s+/g, ' ')
RECURSIVE CollapseWhitespace(_)
CollapseWhitespace(s) ==
    IF Len(s) <= 1 THEN s
    ELSE IF s[1] = " " /\ s[2] = " " THEN CollapseWhitespace(Tail(s))
    ELSE <<s[1]>> \o CollapseWhitespace(Tail(s))

\* String.prototype.trim, on a string whose whitespace runs are single spaces.
Trim(s) ==
    LET a == IF s # <<>> /\ Head(s) = " " THEN Tail(s) ELSE s
    IN  IF a # <<>> /\ a[Len(a)] = " " THEN SubSeq(a, 1, Len(a) - 1) ELSE a

normalizeWhitespace(value) == Trim(CollapseWhitespace(value))

LowerChar(c) == IF c = "A" THEN "a" ELSE c

toLowerCase(s) == [i \in 1..Len(s) |-> LowerChar(s[i])]

\* A cache key that forgets the query.
CacheKeyConstant(cleanedQuery) == <<"q">>

\* Line 372: const cacheKey = cleanedQuery.toLowerCase().
CacheKey(cleanedQuery) == toLowerCase(cleanedQuery)

\* The n-th candidate URL that the engine's result page for a query carries.
SearchHit(query, n) == [query |-> toLowerCase(normalizeWhitespace(query)), n |-> n]

\* What requestMaybe answers for the result page of a query: null, an error
\* status, an empty body, a challenge page, or a page from which
\* extractCandidatesFromSearchHtml and the two filters leave a candidate list.
SearchAnswers(query) ==
    { [kind |-> k, candidates |-> <<>>] : k \in {"null", "error", "empty", "captcha"} }
    \cup { [kind |-> "ok", candidates |-> [i \in 1..n |-> SearchHit(query, i)]] :
             n \in 0..MaxResults }

\* SEARCH_CACHE.set(key, value)
CacheSet(cache, key, value) ==
    [k \in DOMAIN cache \cup {key} |-> IF k = key THEN value ELSE cache[k]]

\* entryCached when the cache had no entry for the key: a list no result
\* page gives (its hit is numbered 0).
NoEntry == << [query |-> <<>>, n |-> 0] >>

\* A caller is idle, in the query loop of a resolve call ("loop"), or inside
\* searchBraveCandidates awaiting the engine ("awaitSearch").  After a search
\* returned: the key searched for, the list obtained, and what the breaker and
\* the cache were when the search was entered.
CallerIdle ==
    [pc |-> "idle", query |-> <<>>, searched |-> FALSE, key |-> <<>>, got |-> <<>>,
     entryTripped |-> FALSE, entryCached |-> NoEntry]

SearchInit ==
    /\ SEARCH_CACHE = <<>>
    /\ braveSearchUnavailable = FALSE
    /\ callers = [p \in Callers |-> CallerIdle]

\* resolveHomepageViaSearch or resolveJobsViaSearch is called and reaches its
\* query loop (lines 613-641, 674-688).
CallResolve(p) ==
    /\ callers[p].pc = "idle"
    /\ callers' = [callers EXCEPT ![p] = [CallerIdle EXCEPT !.pc = "loop"]]
    /\ UNCHANGED <<SEARCH_CACHE, braveSearchUnavailable>>

\* A search that consults the cache before the breaker.
SearchShortCircuitCacheFirst(tripped, cleanedQuery, cache) ==
    IF cleanedQuery = <<>> THEN <<TRUE, <<>>>>
    ELSE IF CacheKey(cleanedQuery) \in DOMAIN cache
         THEN <<TRUE, cache[CacheKey(cleanedQuery)]>>
    ELSE IF tripped THEN <<TRUE, <<>>>>
    ELSE <<FALSE, <<>>>>

\* A search without the breaker test.
SearchShortCircuitNoBreaker(tripped, cleanedQuery, cache) ==
    IF cleanedQuery = <<>> THEN <<TRUE, <<>>>>
    ELSE IF CacheKey(cleanedQuery) \in DOMAIN cache
         THEN <<TRUE, cache[CacheKey(cleanedQuery)]>>
    ELSE <<FALSE, <<>>>>

\* searchBraveCandidates, lines 363-375: <<it returns at once, the list>>.
SearchShortCircuit(tripped, cleanedQuery, cache) ==
    IF tripped THEN <<TRUE, <<>>>>
    ELSE IF cleanedQuery = <<>> THEN <<TRUE, <<>>>>
    ELSE IF CacheKey(cleanedQuery) \in DOMAIN cache
         THEN <<TRUE, cache[CacheKey(cleanedQuery)]>>
    ELSE <<FALSE, <<>>>>

\* One more query of the loop: searchBraveCandidates up to its await (lines
\* 363-382).  It returns at once, or issues the request to the engine.
SearchBegin(p) ==
    /\ callers[p].pc = "loop"
    /\ \E query \in RawQueries :
         LET cleanedQuery == normalizeWhitespace(query)
             key == CacheKey(cleanedQuery)
             short == SearchShortCircuit(braveSearchUnavailable, cleanedQuery, SEARCH_CACHE)
         IN  IF short[1]
             THEN callers' = [callers EXCEPT ![p] =
                    [pc |-> "loop", query |-> <<>>, searched |-> TRUE, key |-> key,
                     got |-> short[2],
                     entryTripped |-> braveSearchUnavailable,
                     entryCached |-> IF key \in DOMAIN SEARCH_CACHE
                                     THEN SEARCH_CACHE[key] ELSE NoEntry]]
             ELSE callers' = [callers EXCEPT ![p] =
                    [CallerIdle EXCEPT !.pc = "awaitSearch", !.query = query]]
    /\ UNCHANGED <<SEARCH_CACHE, braveSearchUnavailable>>

\* searchBraveCandidates after its await (lines 384-406): the answer is
\* written to the cache, and a challenge page trips the breaker.
SearchAnswered(p) ==
    /\ callers[p].pc = "awaitSearch"
    /\ \E answer \in SearchAnswers(callers[p].query) :
         LET key == CacheKey(normalizeWhitespace(callers[p].query))
             list == IF answer.kind = "ok" THEN answer.candidates ELSE <<>>
         IN  /\ SEARCH_CACHE' = CacheSet(SEARCH_CACHE, key, list)
             /\ braveSearchUnavailable' =
                    (IF answer.kind = "captcha" THEN TRUE ELSE braveSearchUnavailable)
             /\ callers' = [callers EXCEPT ![p] =
                    [CallerIdle EXCEPT !.pc = "loop", !.searched = TRUE, !.key = key,
                                       !.got = list]]

\* The call returns: the name had no tokens (lines 619-622), the templates
\* are used up, or a candidate reached the early-stop score (lines 654-660,
\* 697-703).
ReturnResolve(p) ==
    /\ callers[p].pc = "loop"
    /\ callers' = [callers EXCEPT ![p] = CallerIdle]
    /\ UNCHANGED <<SEARCH_CACHE, braveSearchUnavailable>>

SearchNext ==
    \E p \in Callers :
        \/ CallResolve(p)
        \/ SearchBegin(p)
        \/ SearchAnswered(p)
        \/ ReturnResolve(p)


(***************************************************************************)
(* utils/http.ts: DomainRateLimiter.  Every call of schedule creates a     *)
(* gate and chains previous.then(() => gate) into queueByDomain; promise 0 *)
(* is the resolved Promise.resolve(), promise t the chain of call t.       *)
(***************************************************************************)

MaxTasks == 3

TaskIds == 1..MaxTasks

Domains == {"town.ca", "x.icims.com"}

TaskNew ==
    [pc |-> "new", domain |-> "", previous |-> 0, released |-> FALSE, outcome |-> "none"]

LimiterInit ==
    /\ queueByDomain = [d \in Domains |-> 0]
    /\ promises = [i \in 0..MaxTasks |-> i = 0]
    /\ tasks = [t \in TaskIds |-> TaskNew]
    /\ scheduleOrder = [d \in Domains |-> <<>>]
    /\ startOrder = [d \in Domains |-> <<>>]

\* schedule, lines 50-63: previous is read, the chain is stored, and the call
\* awaits previous.  HttpClient.requestWithRedirects calls it once per hop.
Schedule(t, d) ==
    /\ tasks[t].pc = "new"
    /\ \A u \in TaskIds : u < t => tasks[u].pc # "new"
    /\ tasks' = [tasks EXCEPT ![t] =
                    [TaskNew EXCEPT !.pc = "awaitPrevious", !.domain = d,
                                    !.previous = queueByDomain[d]]]
    /\ queueByDomain' = [queueByDomain EXCEPT ![d] = t]
    /\ scheduleOrder' = [scheduleOrder EXCEPT ![d] = Append(@, t)]
    /\ UNCHANGED <<promises, startOrder>>

\* The chain previous.then(async () => { await gate }) of call t settles once
\* previous has settled and the gate was released.
ChainSettle(t) ==
    /\ tasks[t].pc # "new"
    /\ ~promises[t]
    /\ promises[tasks[t].previous]
    /\ tasks[t].released
    /\ promises' = [promises EXCEPT ![t] = TRUE]
    /\ UNCHANGED <<queueByDomain, tasks, scheduleOrder, startOrder>>

\* A limiter that does not wait for the chain before it.
PreviousSettledIgnored(t) == TRUE

\* Line 63: await previous.
PreviousSettled(t) == promises[tasks[t].previous]

\* Lines 63-73: previous has settled; the call sleeps until the host's next
\* allowed time when that lies ahead, else it starts the task at once.
Proceed(t) ==
    /\ tasks[t].pc = "awaitPrevious"
    /\ PreviousSettled(t)
    /\ \/ /\ tasks' = [tasks EXCEPT ![t].pc = "sleep"]
          /\ UNCHANGED startOrder
       \/ /\ tasks' = [tasks EXCEPT ![t].pc = "running"]
          /\ startOrder' = [startOrder EXCEPT ![tasks[t].domain] = Append(@, t)]
    /\ UNCHANGED <<queueByDomain, promises, scheduleOrder>>

\* Lines 67-73: the sleep is over; the task starts.
Wake(t) ==
    /\ tasks[t].pc = "sleep"
    /\ tasks' = [tasks EXCEPT ![t].pc = "running"]
    /\ startOrder' = [startOrder EXCEPT ![tasks[t].domain] = Append(@, t)]
    /\ UNCHANGED <<queueByDomain, promises, scheduleOrder>>

\* A schedule without the finally block: a task that throws leaves the gate
\* closed.
FinishWithoutFinally(t) ==
    /\ tasks[t].pc = "running"
    /\ \E o \in {"returned", "threw"} :
         tasks' = [tasks EXCEPT ![t] = [@ EXCEPT !.pc = "done", !.released = (o = "returned"),
                                                 !.outcome = o]]
    /\ UNCHANGED <<queueByDomain, promises, scheduleOrder, startOrder>>

\* Lines 72-76: the task returns or throws; finally { release() }.
Finish(t) ==
    /\ tasks[t].pc = "running"
    /\ \E o \in {"returned", "threw"} :
         tasks' = [tasks EXCEPT ![t] = [@ EXCEPT !.pc = "done", !.released = TRUE,
                                                 !.outcome = o]]
    /\ UNCHANGED <<queueByDomain, promises, scheduleOrder, startOrder>>

LimiterNext ==
    \E t \in TaskIds :
        \/ \E d \in Domains : Schedule(t, d)
        \/ ChainSettle(t)
        \/ Proceed(t)
        \/ Wake(t)
        \/ Finish(t)

(***************************************************************************)
(* utils/http.ts: HttpClient.request and requestMaybe.  An attempt is one  *)
(* call of requestWithRedirects: it returns a response or throws.          *)
(***************************************************************************)

MaxRetries == 3

AttemptStatuses == {200, 404, 408, 429, 500, 599}

\* What one attempt can end with: a status, or 0 for a thrown error.
AttemptOutcomes == AttemptStatuses \cup {0}

\* A retry test that takes every error status for retryable.
isRetryableStatusAnyError(status) == status >= 400

\* Lines 15-17.
isRetryableStatus(status) ==
    status = 408 \/ status = 429 \/ (status >= 500 /\ status <= 599)

ReqIdle ==
    [pc |-> "idle", retries |-> 0, attempt |-> 0, log |-> <<>>,
     request |-> [kind |-> "none", status |-> 0],
     maybe |-> [kind |-> "none", status |-> 0]]

\* request is entered through requestMaybe with options.retries (3 when the
\* caller gives none).
ReqInit ==
    req \in { [ReqIdle EXCEPT !.pc = "attempt", !.retries = r] : r \in 0..MaxRetries }

\* Lines 93-110: one pass of the loop, up to the sleep or the end of request.
Attempt ==
    /\ req.pc = "attempt"
    /\ \E outcome \in AttemptOutcomes :
         LET r == [req EXCEPT !.log = Append(@, outcome)] IN
         IF outcome # 0
         THEN IF isRetryableStatus(outcome) /\ req.attempt < req.retries
              THEN req' = [r EXCEPT !.pc = "backoff"]
              ELSE req' = [r EXCEPT !.pc = "returning",
                                    !.request = [kind |-> "return", status |-> outcome]]
         ELSE IF req.attempt >= req.retries
              THEN req' = [r EXCEPT !.pc = "returning",
                                    !.request = [kind |-> "throw", status |-> 0]]
              ELSE req' = [r EXCEPT !.pc = "backoff"]

\* Lines 97-99, 107-108: await sleep(delayMs), then the next pass.
Backoff ==
    /\ req.pc = "backoff"
    /\ req' = [req EXCEPT !.pc = "attempt", !.attempt = @ + 1]

\* Lines 115-121: requestMaybe returns what request returns, or null when
\* request throws.
MaybeResult(r) ==
    IF r.kind = "throw" THEN [kind |-> "null", status |-> 0] ELSE r

RequestMaybeReturns ==
    /\ req.pc = "returning"
    /\ req' = [req EXCEPT !.pc = "done", !.maybe = MaybeResult(req.request)]

ReqNext == Attempt \/ Backoff \/ RequestMaybeReturns


(***************************************************************************)
(* discovery/jobsDiscovery.ts: discoverJobsUrl and its strategies, one     *)
(* step per await.                                                         *)
(***************************************************************************)

MaxPaths == 3

\* COMMON_PATHS (lines 10-35), as path segments.
COMMON_PATHS ==
    << <<"careers">>, <<"career">>, <<"jobs">>, <<"job">>, <<"employment">>,
       <<"work-with-us">>, <<"opportunities">>, <<"about", "careers">>,
       <<"about", "jobs">>, <<"join-our-team">>, <<"join-us">>, <<"work-for-us">>,
       <<"employment-opportunities">>, <<"careers-and-employment">>,
       <<"career-opportunities">>, <<"jobs-opportunities">>, <<"human-resources">>,
       <<"hr">>, <<"city-hall", "careers">>, <<"city-hall", "jobs">>,
       <<"our-city", "careers">>, <<"our-city", "jobs">>,
       <<"government", "careers">>, <<"government", "jobs">> >>

\* The paths a full-mode probe walks: COMMON_PATHS, cut to the model's bound.
FullPaths == SubSeq(COMMON_PATHS, 1, Min(MaxPaths, Len(COMMON_PATHS)))

\* Line 412: the paths of the fast mode.
FastPaths == << <<"careers">>, <<"jobs">>, <<"employment">> >>

MkCandidate(url, score, via, isPdf) ==
    [url |-> url, score |-> score, via |-> via, isPdf |-> isPdf]

\* null
NoCandidate == MkCandidate(EmptyUrl, 0, "none", FALSE)

\* Lines 89-94: the stable sort by descending score puts the first of the
\* best-scored candidates in front.
RECURSIVE pickHighestSecondCall(_)
pickHighestSecondCall(candidates) ==
    IF candidates = <<>> THEN NoCandidate
    ELSE LET rest == pickHighestSecondCall(Tail(candidates)) IN
         IF /\ rest # NoCandidate
            /\ \/ rest.score > Head(candidates).score
               \/ twin.run = 2 /\ rest.score = Head(candidates).score
         THEN rest ELSE Head(candidates)

RECURSIVE pickHighest(_)
pickHighest(candidates) ==
    IF candidates = <<>> THEN NoCandidate
    ELSE LET rest == pickHighest(Tail(candidates)) IN
         IF rest # NoCandidate /\ rest.score > Head(candidates).score
         THEN rest ELSE Head(candidates)

\* candidates.filter((candidate) => Boolean(candidate?.isPdf))
RECURSIVE PdfOnly(_)
PdfOnly(candidates) ==
    IF candidates = <<>> THEN <<>>
    ELSE (IF Head(candidates).isPdf THEN <<Head(candidates)>> ELSE <<>>)
         \o PdfOnly(Tail(candidates))

\* candidates.filter((candidate) => !candidate.isPdf)
RECURSIVE NonPdfOnly(_)
NonPdfOnly(candidates) ==
    IF candidates = <<>> THEN <<>>
    ELSE (IF Head(candidates).isPdf THEN <<>> ELSE <<Head(candidates)>>)
         \o NonPdfOnly(Tail(candidates))

HomepageUrl == MkUrl(<<"town.ca">>, <<>>, FALSE, "", FALSE)

DiscoverInputs == {EmptyUrl, BadUrl, HomepageUrl}

\* Final URLs of a probe of origin + path (lines 105, 113): the probed URL,
\* an ATS page, an ATS page whose pattern needs the trailing slash that
\* cleanUrl removes, and a PDF.
ProbeFinalUrls(path) ==
    { MkUrl(<<"town.ca">>, path, FALSE, "", FALSE),
      MkUrl(<<"x.", "icims.com">>, <<"jobs">>, TRUE, "", FALSE),
      MkUrl(<<"x.", "bamboohr.com">>, <<"jobs">>, TRUE, "", FALSE),
      MkUrl(<<"town.ca">>, <<"doc.pdf">>, FALSE, "", FALSE) }

\* A page whose raw HTML holds c distinct CAREER_KEYWORDS (keywordCount).
KeywordBody(c) == MkBody(<<>>, 0, 0, 0, 0, c)

keywordCount(body) == body.careerKeywords

ProbeAnswers(path) ==
    {NoResponse} \cup
    { MkResponse(sc[1], f, KeywordBody(sc[2]), ct) :
        sc \in {<<200, 2>>, <<200, 1>>, <<404, 2>>},
        f \in ProbeFinalUrls(path), ct \in BOOLEAN }

\* Lines 114-148: what one probe response does to the loop of pathProbe:
\* <<"return", candidate>>, or <<"continue", the PDF candidate held>>.
ProbeStepOneKeyword(response, pdfCandidate) ==
    LET finalUrl == cleanUrl(response.url)
        isPdf == looksLikePdf(finalUrl) \/ response.contentTypePdf
    IN  IF ~response.ok THEN <<"continue", pdfCandidate>>
        ELSE IF isKnownAtsUrl(finalUrl)
             THEN <<"return", MkCandidate(finalUrl, 100, "path_guess", FALSE)>>
        ELSE IF isPdf /\ pdfCandidate = NoCandidate
             THEN <<"continue", MkCandidate(finalUrl, 10, "pdf", TRUE)>>
        ELSE IF response.status = 200 /\ keywordCount(response.body) >= 1
             THEN <<"return", MkCandidate(finalUrl, 80, "path_guess", isPdf)>>
        ELSE <<"continue", pdfCandidate>>

ProbeStep(response, pdfCandidate) ==
    LET finalUrl == cleanUrl(response.url)
        isPdf == looksLikePdf(finalUrl) \/ response.contentTypePdf
    IN  IF ~response.ok THEN <<"continue", pdfCandidate>>
        ELSE IF isKnownAtsUrl(finalUrl)
             THEN <<"return", MkCandidate(finalUrl, 100, "path_guess", FALSE)>>
        ELSE IF isPdf /\ pdfCandidate = NoCandidate
             THEN <<"continue", MkCandidate(finalUrl, 10, "pdf", TRUE)>>
        ELSE IF response.status = 200 /\ keywordCount(response.body) >= 2
             THEN <<"return", MkCandidate(finalUrl, 80, "path_guess", isPdf)>>
        ELSE <<"continue", pdfCandidate>>


\* JobsDiscoveryResult, or a rejection of the promise.
MkDiscovery(jobsUrl, discoveredVia, notes) ==
    [kind |-> "return", jobsUrl |-> jobsUrl, discoveredVia |-> discoveredVia,
     notes |-> notes]

DiscoveryThrown == [kind |-> "throw", jobsUrl |-> EmptyUrl, discoveredVia |-> "", notes |-> ""]

DiscoveryPending == [kind |-> "none", jobsUrl |-> EmptyUrl, discoveredVia |-> "", notes |-> ""]

\* One call of discoverJobsUrl.  probes, linkFetches, pagesOpened and
\* sitemapFetches count the probe requests, the requests of linkTextCrawl, the
\* pages opened and the /sitemap.xml requests; ran holds the strategies that
\* returned; linkNonPdf is the best non-PDF anchor linkTextCrawl had scored
\* when it returned; navigated lists the targets of page.goto, enqueued holds
\* the URLs pushed on the queue of the browser crawl and queuePeak is the
\* greatest length that queue had; retries holds the retries options of the
\* requests issued; hit, hitUrl and probesAtHit record the probe whose cleaned
\* final URL was a known ATS URL; candStatus is the status of the probe
\* response that gave the latest candidate of pathProbe (0 before any);
\* failures records the rejections met.
DiscIdle ==
    [pc |-> "idle", homepageUrl |-> EmptyUrl, fast |-> FALSE, browser |-> FALSE,
     probes |-> 0, linkFetches |-> 0, pagesOpened |-> 0, sitemapFetches |-> 0,
     pathIdx |-> 0, pdfHeld |-> NoCandidate,
     pathCandidate |-> NoCandidate, linkCandidate |-> NoCandidate,
     browserCandidate |-> NoCandidate, sitemapCandidate |-> NoCandidate,
     linkNonPdf |-> NoCandidate, retries |-> {},
     ran |-> {}, pagesLeft |-> 0, candidates |-> <<>>, visited |-> {}, queue |-> <<>>,
     requestUrls |-> <<>>, navigated |-> <<>>, enqueued |-> {}, queuePeak |-> 0,
     hit |-> FALSE, hitUrl |-> EmptyUrl, probesAtHit |-> 0, candStatus |-> 0,
     failures |-> {}, result |-> DiscoveryPending]

DiscInit ==
    disc \in { [DiscIdle EXCEPT !.pc = "start", !.homepageUrl = u, !.fast = f,
                                !.browser = b] :
                 u \in DiscoverInputs, f \in BOOLEAN, b \in BOOLEAN }

DiscDone(d, r) == [d EXCEPT !.pc = "done", !.result = r]

DiscAccept(d, c) == DiscDone(d, MkDiscovery(c.url, c.via, ""))

\* A last resort that reports the run as found by a strategy.
ExhaustedResultUnflagged(pdfCandidate) ==
    IF pdfCandidate # NoCandidate
    THEN MkDiscovery(pdfCandidate.url, "pdf", "PDF careers source detected.")
    ELSE MkDiscovery(EmptyUrl, "link_text", "")

\* Lines 424-436, 479-491: the best PDF held, else the explicit empty result.
ExhaustedResult(pdfCandidate) ==
    IF pdfCandidate # NoCandidate
    THEN MkDiscovery(pdfCandidate.url, "pdf", "PDF careers source detected.")
    ELSE MkDiscovery(EmptyUrl, "manual", "No reliable jobs URL discovered automatically.")

\* Lines 473-491.
FullFinal(d) ==
    DiscDone(d, ExhaustedResult(pickHighest(PdfOnly(
        <<d.pathCandidate, d.linkCandidate, d.browserCandidate, d.sitemapCandidate>>))))

\* Lines 423-436.
FastFinal(d) ==
    DiscDone(d, ExhaustedResult(pickHighest(PdfOnly(<<d.linkCandidate, d.pathCandidate>>))))

\* Lines 465-471.
AfterSitemap(d0, c) ==
    LET d == [d0 EXCEPT !.sitemapCandidate = c, !.ran = @ \cup {"sitemap"}] IN
    IF c # NoCandidate /\ ~c.isPdf THEN DiscAccept(d, c) ELSE FullFinal(d)

\* Lines 337-352: sitemapScan up to its await; a homepage that does not parse
\* gives null at once.
StartSitemap(d) ==
    IF d.homepageUrl.kind # "url" THEN AfterSitemap(d, NoCandidate)
    ELSE [d EXCEPT !.pc = "sitemap", !.sitemapFetches = @ + 1, !.retries = @ \cup {1}]

\* A cascade that takes from the browser crawl only a candidate scored 80 or more.
AfterBrowserStrongOnly(d0, c) ==
    LET d == [d0 EXCEPT !.browserCandidate = c, !.ran = @ \cup {"browser"}] IN
    IF c # NoCandidate /\ ~c.isPdf /\ c.score >= 80 THEN DiscAccept(d, c)
    ELSE StartSitemap(d)

\* Lines 458-465.
AfterBrowser(d0, c) ==
    LET d == [d0 EXCEPT !.browserCandidate = c, !.ran = @ \cup {"browser"}] IN
    IF c # NoCandidate /\ ~c.isPdf THEN DiscAccept(d, c) ELSE StartSitemap(d)

\* Lines 164, 401: the retries linkTextCrawl gives to its requests.
LinkRetries(d) == IF d.fast THEN 0 ELSE 1

\* a fast probe with pathProbe's default retries
ProbeRetriesDefault(d) == 1

\* Lines 100, 413: the retries pathProbe gives to its requests.
ProbeRetries(d) == IF d.fast THEN 0 ELSE 1

\* Line 168: linkTextCrawl up to its first await.
StartLinkCrawl(d) ==
    [d EXCEPT !.pc = "linkHome", !.linkFetches = @ + 1, !.candidates = <<>>,
              !.retries = @ \cup {LinkRetries(d)}]

\* A cascade that goes on after an accepted path candidate.
PathAcceptedNever(c) == FALSE

\* Line 440: pathCandidate && (!pathCandidate.isPdf || via === 'path_guess').
PathAccepted(c) == c # NoCandidate /\ (~c.isPdf \/ c.via = "path_guess")

\* Lines 440-447 and, in fast mode, 416-436.
AfterPathProbe(d0, c) ==
    LET d == [d0 EXCEPT !.pathCandidate = c, !.ran = @ \cup {"path"}] IN
    IF d.fast
    THEN IF c # NoCandidate /\ ~c.isPdf THEN DiscAccept(d, c) ELSE FastFinal(d)
    ELSE IF PathAccepted(c) THEN DiscAccept(d, c) ELSE StartLinkCrawl(d)

DiscPaths(d) == IF d.fast THEN FastPaths ELSE FullPaths

\* Lines 103-114: pathProbe up to its first await; a homepage that does not
\* parse gives null at once.
StartPathProbe(d) ==
    IF d.homepageUrl.kind # "url" THEN AfterPathProbe(d, NoCandidate)
    ELSE [d EXCEPT !.pc = "probe", !.pathIdx = 1, !.pdfHeld = NoCandidate,
                   !.probes = @ + 1, !.retries = @ \cup {ProbeRetries(d)}]

\* A cascade whose sitemap scan follows the link-text crawl at once.
AfterLinkCrawlSitemapNext(d0, c) ==
    LET d == [d0 EXCEPT !.linkCandidate = c, !.ran = @ \cup {"link"}, !.candidates = <<>>,
                        !.linkNonPdf = pickHighest(NonPdfOnly(d0.candidates))] IN
    IF c # NoCandidate /\ ~c.isPdf THEN DiscAccept(d, c)
    ELSE IF d.fast THEN StartPathProbe(d)
    ELSE StartSitemap(d)

\* Lines 402-409 and 448-465.
AfterLinkCrawl(d0, c) ==
    LET d == [d0 EXCEPT !.linkCandidate = c, !.ran = @ \cup {"link"}, !.candidates = <<>>,
                        !.linkNonPdf = pickHighest(NonPdfOnly(d0.candidates))] IN
    IF c # NoCandidate /\ ~c.isPdf THEN DiscAccept(d, c)
    ELSE IF d.fast THEN StartPathProbe(d)
    ELSE IF d.browser THEN [d EXCEPT !.pc = "browserNewPage"]
    ELSE StartSitemap(d)

\* Lines 392-439.
DiscoverStartStep(d) ==
    IF d.homepageUrl.kind = "empty"
    THEN DiscDone(d, MkDiscovery(EmptyUrl, "manual",
                                 "Homepage missing; manual review required."))
    ELSE IF d.fast THEN StartLinkCrawl(d)
    ELSE StartPathProbe(d)

DiscoverStart ==
    /\ disc.pc = "start"
    /\ disc' = DiscoverStartStep(disc)

\* Lines 114-151: the answer to one probe.
ProbeAnsweredStep(disc0, response) ==
    LET step == ProbeStep(response, disc0.pdfHeld)
        hit == response.ok /\ isKnownAtsUrl(cleanUrl(response.url))
        d == [disc0 EXCEPT
                !.hit = hit,
                !.hitUrl = IF hit THEN cleanUrl(response.url) ELSE @,
                !.probesAtHit = IF hit THEN disc0.probes ELSE @,
                !.candStatus = IF step[1] = "return" \/ step[2] # disc0.pdfHeld
                               THEN response.status ELSE @,
                !.failures = IF response.ok THEN @ ELSE @ \cup {"fetch"}]
    IN  IF step[1] = "return" THEN AfterPathProbe(d, step[2])
        ELSE IF disc0.pathIdx < Len(DiscPaths(disc0))
             THEN [d EXCEPT !.pathIdx = @ + 1, !.pdfHeld = step[2],
                            !.probes = @ + 1, !.retries = @ \cup {ProbeRetries(disc0)}]
             ELSE AfterPathProbe(d, step[2])

ProbeAnswered ==
    /\ disc.pc = "probe"
    /\ \E response \in ProbeAnswers(DiscPaths(disc)[disc.pathIdx]) :
         disc' = ProbeAnsweredStep(disc, response)


\* An anchor of a fetched or rendered page: its resolved href, the value of
\* scoreLinkText on its text and the value of likelyContextPage on its text.
MkLink(url, textScore, context) == [url |-> url, textScore |-> textScore, context |-> context]

JobsLink == MkLink(MkUrl(<<"town.ca">>, <<"jobs">>, TRUE, "", FALSE), 1, FALSE)
AtsKeywordLink == MkLink(MkUrl(<<"x.", "icims.com">>, <<"jobs">>, FALSE, "icims.com", FALSE), 1, FALSE)
AtsPlainLink == MkLink(MkUrl(<<"x.", "icims.com">>, <<"jobs">>, FALSE, "", FALSE), 0, FALSE)
PdfLink == MkLink(MkUrl(<<"town.ca">>, <<"doc.pdf">>, FALSE, "", FALSE), 2, FALSE)
AboutLink == MkLink(MkUrl(<<"town.ca">>, <<"about">>, FALSE, "", FALSE), 0, TRUE)
ContactLink == MkLink(MkUrl(<<"town.ca">>, <<"contact">>, TRUE, "", FALSE), 0, TRUE)
CityHallLink == MkLink(MkUrl(<<"town.ca">>, <<"city-hall">>, FALSE, "", FALSE), 0, TRUE)
ElsewhereLink == MkLink(MkUrl(<<"x.", "taleo.net">>, <<"about">>, FALSE, "", FALSE), 0, TRUE)

LinkLists ==
    { <<>>,
      <<JobsLink>>,
      <<AboutLink, PdfLink>>,
      <<AtsPlainLink, ElsewhereLink>>,
      <<JobsLink, AtsKeywordLink>>,
      <<AboutLink, AboutLink, ContactLink, CityHallLink>> }

\* What requestMaybe gives for a page: null, or a response with a status and
\* a body holding the anchors (hasBody is false for the empty string).
MkPage(status, links, hasBody) ==
    [ok |-> TRUE, status |-> status, links |-> links, hasBody |-> hasBody]

NoPage == [ok |-> FALSE, status |-> 0, links |-> <<>>, hasBody |-> FALSE]

PageAnswers(u) ==
    {NoPage} \cup
    (IF u.kind # "url" THEN {}
     ELSE { MkPage(404, <<>>, TRUE), MkPage(200, <<>>, FALSE) }
          \cup { MkPage(200, l, TRUE) : l \in LinkLists })

\* sameHost: false when either string does not parse.
sameHost(a, b) == a.kind = "url" /\ b.kind = "url" /\ a.host = b.host

RECURSIVE Unique(_, _)
Unique(seq, seen) ==
    IF seq = <<>> THEN <<>>
    ELSE IF Head(seq) \in seen THEN Unique(Tail(seq), seen)
    ELSE <<Head(seq)>> \o Unique(Tail(seq), seen \cup {Head(seq)})

\* Lines 178-198: the same-host anchors whose text names a context page, at
\* most 8 of them.
RECURSIVE likelyPagesOf(_, _, _)
likelyPagesOf(links, base, acc) ==
    IF links = <<>> \/ Len(acc) >= 8 THEN acc
    ELSE LET l == Head(links)
             absolute == cleanUrl(l.url)
         IN  likelyPagesOf(Tail(links), base,
                 IF l.context /\ sameHost(absolute, base)
                 THEN Append(acc, absolute) ELSE acc)

\* Lines 173-202.
PagesToFetch(homepage, homepageUrl, includeLikelyPages) ==
    <<cleanUrl(homepageUrl)>> \o
    (IF includeLikelyPages
     THEN LET u == Unique(likelyPagesOf(homepage.links, homepageUrl, <<>>), {})
          IN  SubSeq(u, 1, Min(2, Len(u)))
     ELSE <<>>)

\* Lines 213-235: the candidates the anchors of one fetched page add.
RECURSIVE LinkCandidates(_)
LinkCandidates(links) ==
    IF links = <<>> THEN <<>>
    ELSE LET l == Head(links)
             absolute == cleanUrl(l.url)
             isPdf == looksLikePdf(absolute)
         IN  (IF l.textScore <= 0 THEN <<>>
              ELSE << MkCandidate(absolute,
                                  l.textScore + (IF isKnownAtsUrl(absolute) THEN 40 ELSE 0),
                                  IF isPdf THEN "pdf" ELSE "link_text", isPdf) >>)
             \o LinkCandidates(Tail(links))

\* Lines 168-204: the answer to the homepage fetch of linkTextCrawl.
LinkHomeAnsweredStep(disc0, homepage) ==
    LET d == [disc0 EXCEPT !.failures = IF homepage.ok THEN @ ELSE @ \cup {"fetch"}] IN
    IF ~homepage.ok \/ homepage.status >= 400 \/ ~homepage.hasBody
    THEN AfterLinkCrawl(d, NoCandidate)
    ELSE [d EXCEPT !.pc = "linkPage",
                   !.queue = PagesToFetch(homepage, disc0.homepageUrl, ~disc0.fast),
                   !.candidates = <<>>,
                   !.linkFetches = @ + 1,
                   !.retries = @ \cup {LinkRetries(disc0)}]

LinkHomeAnswered ==
    /\ disc.pc = "linkHome"
    /\ \E homepage \in PageAnswers(disc.homepageUrl) :
         disc' = LinkHomeAnsweredStep(disc, homepage)

\* Lines 206-239: the answer to the fetch of one page of pagesToFetch.
LinkPageAnsweredStep(disc0, response) ==
    LET found == IF ~response.ok \/ response.status >= 400 THEN <<>>
                 ELSE LinkCandidates(response.links)
        d == [disc0 EXCEPT !.candidates = @ \o found,
                           !.queue = Tail(@),
                           !.failures = IF response.ok THEN @ ELSE @ \cup {"fetch"}]
    IN  IF d.queue = <<>>
        THEN AfterLinkCrawl([d EXCEPT !.queue = <<>>], pickHighest(d.candidates))
        ELSE [d EXCEPT !.linkFetches = @ + 1, !.retries = @ \cup {LinkRetries(disc0)}]

LinkPageAnswered ==
    /\ disc.pc = "linkPage"
    /\ \E response \in PageAnswers(Head(disc.queue)) :
         disc' = LinkPageAnsweredStep(disc, response)


\* The URL tokens in which /career|job|employ|vacanc|recruit|opportunit|hiring/
\* (line 291) finds a match.
PathKeywordTokens ==
    {"careers", "career", "jobs", "job", "employment", "careersection", "opportunities",
     "myworkdayjobs.com", "governmentjobs.com"}

pathKeywordBoost(u) ==
    IF \E i \in 1..Len(Tokens(u)) : Tokens(u)[i] \in PathKeywordTokens THEN 2 ELSE 0

\* Lines 277-314: the anchors of one rendered page, in document order, add
\* candidates and enqueue context pages. st = [candidates, queue].
RECURSIVE BrowserLinks(_, _, _, _)
BrowserLinks(links, st, visited, homepageUrl) ==
    IF links = <<>> THEN st
    ELSE LET l == Head(links)
             absolute == cleanUrl(l.url)
             boost == pathKeywordBoost(absolute)
             isPdf == looksLikePdf(absolute)
             cands == IF l.textScore + boost > 0
                      THEN Append(st.candidates,
                               MkCandidate(absolute,
                                   l.textScore + boost
                                     + (IF isKnownAtsUrl(absolute) THEN 40 ELSE 0),
                                   IF isPdf THEN "pdf" ELSE "link_text", isPdf))
                      ELSE st.candidates
             queue == IF /\ Len(st.queue) < 2
                         /\ sameHost(absolute, homepageUrl)
                         /\ l.context
                         /\ absolute \notin visited
                      THEN Append(st.queue, absolute)
                      ELSE st.queue
         IN  BrowserLinks(Tail(links), [candidates |-> cands, queue |-> queue],
                          visited, homepageUrl)

\* Lines 317-327: the ATS request URLs the page was seen to issue.
RECURSIVE RequestCandidates(_)
RequestCandidates(requestUrls) ==
    IF requestUrls = <<>> THEN <<>>
    ELSE (IF isKnownAtsUrl(Head(requestUrls))
          THEN << MkCandidate(cleanUrl(Head(requestUrls)), 90, "link_text", FALSE) >>
          ELSE <<>>)
         \o RequestCandidates(Tail(requestUrls))

\* A loop that navigates to a target whether or not it was visited.
RECURSIVE BrowserLoopRevisits(_)
BrowserLoopRevisits(d) ==
    IF d.queue # <<>> /\ Cardinality(d.visited) < 3
    THEN LET cleanedTargetUrl == cleanUrl(Head(d.queue))
             rest == [d EXCEPT !.queue = Tail(@)]
         IN  IF cleanedTargetUrl.kind = "empty"
             THEN BrowserLoopRevisits(rest)
             ELSE [rest EXCEPT !.pc = "browserGoto",
                               !.visited = @ \cup {cleanedTargetUrl},
                               !.navigated = Append(@, cleanedTargetUrl)]
    ELSE [d EXCEPT !.pc = "browserClose",
                   !.candidates = @ \o RequestCandidates(d.requestUrls)]

\* Lines 254-262, 317-331: the loop of browserLinkTextCrawl up to its next
\* await: the navigation to the next unvisited target, or the close of the
\* page once the queue is exhausted or three targets were visited.
RECURSIVE BrowserLoop(_)
BrowserLoop(d) ==
    IF d.queue # <<>> /\ Cardinality(d.visited) < 3
    THEN LET cleanedTargetUrl == cleanUrl(Head(d.queue))
             rest == [d EXCEPT !.queue = Tail(@)]
         IN  IF cleanedTargetUrl.kind = "empty" \/ cleanedTargetUrl \in d.visited
             THEN BrowserLoop(rest)
             ELSE [rest EXCEPT !.pc = "browserGoto",
                               !.visited = @ \cup {cleanedTargetUrl},
                               !.navigated = Append(@, cleanedTargetUrl)]
    ELSE [d EXCEPT !.pc = "browserClose",
                   !.candidates = @ \o RequestCandidates(d.requestUrls)]

\* Lines 243-251: browser.newPage() stands outside the try block.
BrowserNewPageStep(d, opened) ==
    IF opened
    THEN BrowserLoop([d EXCEPT !.pagesOpened = @ + 1,
                               !.queue = <<d.homepageUrl>>,
                               !.queuePeak = 1,
                               !.visited = {},
                               !.candidates = <<>>,
                               !.requestUrls = <<>>])
    ELSE DiscDone([d EXCEPT !.failures = @ \cup {"newPage"}], DiscoveryThrown)

BrowserNewPage ==
    /\ disc.pc = "browserNewPage"
    /\ \/ disc' = BrowserNewPageStep(disc, TRUE)
       \/ disc' = BrowserNewPageStep(disc, FALSE)

RequestLists ==
    { <<>>,
      << MkUrl(<<"town.ca">>, <<"about">>, FALSE, "", FALSE),
         MkUrl(<<"x.", "icims.com">>, <<"jobs">>, TRUE, "icims.com", FALSE) >> }

\* Lines 328-332: catch {} then finally: the page is closed.
DiscNavigationFailed(d) == [d EXCEPT !.pc = "browserClose"]

\* Lines 262-315: one navigation and the evaluation of the page's anchors.
BrowserGotoFailed(d) == DiscNavigationFailed([d EXCEPT !.failures = @ \cup {"goto"}])

BrowserGotoLoaded(d, links, requests) ==
    LET st == BrowserLinks(links,
                           [candidates |-> d.candidates, queue |-> d.queue],
                           d.visited, d.homepageUrl)
    IN  BrowserLoop([d EXCEPT !.candidates = st.candidates,
                              !.queue = st.queue,
                              !.enqueued = @ \cup {st.queue[i] :
                                                     i \in (Len(d.queue) + 1)..Len(st.queue)},
                              !.queuePeak = IF Len(st.queue) > @ THEN Len(st.queue) ELSE @,
                              !.requestUrls = @ \o requests])

BrowserGoto ==
    /\ disc.pc = "browserGoto"
    /\ \/ disc' = BrowserGotoFailed(disc)
       \/ /\ \A v \in disc.visited : v.kind = "url"
          /\ \E links \in LinkLists, requests \in RequestLists :
               disc' = BrowserGotoLoaded(disc, links, requests)

\* Lines 330-334: page.close() in the finally block, then pickHighest.
BrowserCloseStep(disc0, closed) ==
    LET d == [disc0 EXCEPT !.queue = <<>>, !.visited = {}, !.requestUrls = <<>>,
                           !.candidates = <<>>, !.navigated = <<>>, !.enqueued = {},
                           !.queuePeak = 0] IN
    IF closed
    THEN AfterBrowser(d, pickHighest(disc0.candidates))
    ELSE DiscDone([d EXCEPT !.failures = @ \cup {"close"}], DiscoveryThrown)

BrowserClose ==
    /\ disc.pc = "browserClose"
    /\ \/ disc' = BrowserCloseStep(disc, TRUE)
       \/ disc' = BrowserCloseStep(disc, FALSE)

\* The URL tokens in which /career|job|employ|opportunit|recruit/ (line 363)
\* finds a match, and those in which /career|jobs/ (line 369) does.
SitemapKeywordTokens ==
    {"careers", "career", "jobs", "job", "employment", "careersection", "opportunities",
     "myworkdayjobs.com", "governmentjobs.com"}

SitemapCareerTokens ==
    {"careers", "career", "jobs", "careersection", "myworkdayjobs.com", "governmentjobs.com"}

HasToken(u, tokens) == \E i \in 1..Len(Tokens(u)) : Tokens(u)[i] \in tokens

\* Lines 358-382.
RECURSIVE SitemapCandidates(_)
SitemapCandidates(locs) ==
    IF locs = <<>> THEN <<>>
    ELSE LET url == cleanUrl(Head(locs))
             isPdf == looksLikePdf(url)
         IN  (IF ~HasToken(url, SitemapKeywordTokens) THEN <<>>
              ELSE << MkCandidate(url,
                          20 + (IF HasToken(url, SitemapCareerTokens) THEN 10 ELSE 0)
                             + (IF isKnownAtsUrl(url) THEN 30 ELSE 0),
                          IF isPdf THEN "pdf" ELSE "sitemap", isPdf) >>)
             \o SitemapCandidates(Tail(locs))

LocLists ==
    { <<>>,
      << MkUrl(<<"town.ca">>, <<"about">>, FALSE, "", FALSE) >>,
      << MkUrl(<<"town.ca">>, <<"employment">>, TRUE, "", FALSE),
         MkUrl(<<"town.ca">>, <<"jobs">>, FALSE, "", FALSE) >>,
      << MkUrl(<<"town.ca">>, <<"jobs">>, FALSE, "", FALSE),
         MkUrl(<<"x.", "icims.com">>, <<"jobs">>, FALSE, "", FALSE) >>,
      << MkUrl(<<"town.ca">>, <<"jobs", "doc.pdf">>, FALSE, "", FALSE) >> }

\* The sitemap response: null, an error status, an empty body, or XML whose
\* <loc> elements are the list links.
SitemapAnswers ==
    { NoPage, MkPage(404, <<>>, TRUE), MkPage(200, <<>>, FALSE) }
    \cup { MkPage(200, l, TRUE) : l \in LocLists }

\* Lines 346-384: the answer to the /sitemap.xml fetch.
SitemapAnsweredStep(disc0, response) ==
    LET d == [disc0 EXCEPT !.failures = IF response.ok THEN @ ELSE @ \cup {"fetch"}] IN
    IF ~response.ok \/ response.status >= 400 \/ ~response.hasBody
    THEN AfterSitemap(d, NoCandidate)
    ELSE AfterSitemap(d, pickHighest(SitemapCandidates(response.links)))

SitemapAnswered ==
    /\ disc.pc = "sitemap"
    /\ \E response \in SitemapAnswers :
         disc' = SitemapAnsweredStep(disc, response)

DiscNext ==
    \/ DiscoverStart
    \/ ProbeAnswered
    \/ LinkHomeAnswered
    \/ LinkPageAnswered
    \/ BrowserNewPage
    \/ BrowserGoto
    \/ BrowserClose
    \/ SitemapAnswered



(***************************************************************************)
(* discovery.ts: processOrg, run over the seeds by mapWithConcurrency      *)
(* (utils/concurrency).  discoverJobsUrl, classifyJobsSource and the two   *)
(* research functions are the callees: each call answers with one of its   *)
(* results or rejects.  The logger's writes succeed.                       *)
(***************************************************************************)

MaxOrgs == 2
MaxWorkers == 2

OrgIds == 1..MaxOrgs

\* manualClassification(), lines 66-72.
manualClassification == MkResult("manual_review", "manual", 0)

\* roundConfidence, lines 79-81, on hundredths: round to one decimal, clamp.
roundConfidence(value) ==
    LET rounded == ((value + 5) \div 10) * 10 IN
    IF rounded < 0 THEN 0 ELSE IF rounded > 100 THEN 100 ELSE rounded

MkOrgRecord(homepage_url, jobs_url, jobs_source_type, adapter, confidence, discovered_via) ==
    [homepage_url |-> homepage_url, jobs_url |-> jobs_url,
     jobs_source_type |-> jobs_source_type, adapter |-> adapter,
     confidence |-> confidence, discovered_via |-> discovered_via]

\* No record: the slot of results that was never written.
NoRecord == MkOrgRecord(EmptyUrl, EmptyUrl, "none", "none", 0, "none")

SeedHomepages == {EmptyUrl, MkUrl(<<"town.ca">>, <<>>, FALSE, "icims.com", FALSE)}

\* What the callees answer with when they return.
ResearchedHomepages == { MkUrl(<<"town.ca">>, <<>>, FALSE, "", FALSE) }

DiscoveredResults ==
    { MkDiscovery(MkUrl(<<"town.ca">>, <<"jobs">>, TRUE, "", FALSE), "path_guess", ""),
      MkDiscovery(EmptyUrl, "manual", "No reliable jobs URL discovered automatically.") }

ResearchedJobs ==
    { [url |-> MkUrl(<<"town.ca">>, <<"jobs">>, FALSE, "", FALSE), discoveredVia |-> "manual"] }

Classifications == { MkResult("ats_icims", "icims", 100), GenericUnknown }

\* One call of processOrg.  threw tells whether a callee rejected, failed
\* whether the outer catch was reached; call is the latest call of one of the
\* four callees with its URL argument; settled is the callee that settled
\* last, how it settled and the URL it returned (the empty URL for null and
\* for a classification).
NoCall == [fn |-> "none", arg |-> EmptyUrl]

NoneSettled == [fn |-> "none", state |-> "none", ret |-> EmptyUrl]

OrgIdle ==
    [pc |-> "idle", homepageUrl |-> EmptyUrl,
     jobsUrl |-> EmptyUrl, discoveredVia |-> "manual",
     threw |-> FALSE, failed |-> FALSE, call |-> NoCall, settled |-> NoneSettled,
     outcome |-> "none", record |-> NoRecord]

\* The callee fn is called with the URL arg and processOrg awaits it at pc.
Call(o, pc, fn, arg) ==
    [o EXCEPT !.pc = pc, !.call = [fn |-> fn, arg |-> arg]]

\* The call awaited has settled.
Settle(o, state, ret) ==
    [o EXCEPT !.settled = [fn |-> o.call.fn, state |-> state, ret |-> ret]]

\* Lines 186-206: the record is built and returned.
OrgReturn(o, classification) ==
    LET manual == classification.jobsSourceType = "manual_review" IN
    [o EXCEPT !.pc = "done", !.outcome = "return",
              !.record = MkOrgRecord(o.homepageUrl, o.jobsUrl,
                             classification.jobsSourceType,
                             IF manual THEN "manual" ELSE classification.adapter,
                             IF manual THEN 0 ELSE roundConfidence(classification.confidence),
                             IF manual THEN "manual" ELSE o.discoveredVia)]

\* A processOrg without its outer catch: the exception leaves the function.
OrgFailUncaught(o) ==
    [o EXCEPT !.pc = "done", !.failed = TRUE, !.outcome = "reject"]

\* An outer catch that keeps the jobs URL found before the failure.
OrgFailKeepsJobsUrl(o) ==
    [o EXCEPT !.pc = "done", !.failed = TRUE, !.outcome = "return",
              !.record = MkOrgRecord(o.homepageUrl, o.jobsUrl, "manual_review", "manual",
                                     0, "manual")]

\* Lines 207-222: the outer catch returns the manual-review record.
OrgFail(o) ==
    [o EXCEPT !.pc = "done", !.failed = TRUE, !.outcome = "return",
              !.record = MkOrgRecord(o.homepageUrl, EmptyUrl, "manual_review", "manual",
                                     0, "manual")]

\* Lines 97-122: processOrg up to its first await.
OrgStart(seedHomepage) ==
    LET homepageUrl == cleanUrl(seedHomepage)
        o == [OrgIdle EXCEPT !.homepageUrl = homepageUrl]
    IN  IF homepageUrl = EmptyUrl
        THEN Call(o, "researchHomepage", "resolveHomepageViaSearch", EmptyUrl)
        ELSE Call(o, "discover", "discoverJobsUrl", homepageUrl)

\* Lines 105-122, 180-184: resolveHomepageViaSearch answers.
ResearchHomepageAnswered(i) ==
    /\ batch.orgs[i].pc = "researchHomepage"
    /\ LET o == batch.orgs[i] IN
       \/ batch' = [batch EXCEPT !.orgs[i] =
                        OrgReturn(Settle(o, "returned", EmptyUrl), manualClassification)]
       \/ \E url \in ResearchedHomepages :
            batch' = [batch EXCEPT !.orgs[i] =
                        Call([Settle(o, "returned", url) EXCEPT !.homepageUrl = url],
                             "discover", "discoverJobsUrl", url)]
       \/ batch' = [batch EXCEPT !.orgs[i] =
                        OrgFail([Settle(o, "threw", EmptyUrl) EXCEPT !.threw = TRUE])]

\* A processOrg that researches the jobs URL whatever the cascade returned.
AfterDiscoveredAlwaysResearch(o0, discovered) ==
    LET o == [Settle(o0, "returned", discovered.jobsUrl) EXCEPT
                 !.jobsUrl = cleanUrl(discovered.jobsUrl),
                 !.discoveredVia = discovered.discoveredVia]
    IN  Call(o, "researchJobs", "resolveJobsViaSearch", o.homepageUrl)

\* Lines 140-161: what follows a result of discoverJobsUrl.
AfterDiscovered(o0, discovered) ==
    LET jobsUrl == cleanUrl(discovered.jobsUrl)
        o == [Settle(o0, "returned", discovered.jobsUrl) EXCEPT
                 !.jobsUrl = jobsUrl, !.discoveredVia = discovered.discoveredVia]
    IN  IF jobsUrl = EmptyUrl
        THEN Call(o, "researchJobs", "resolveJobsViaSearch", o.homepageUrl)
        ELSE Call(o, "classify", "classifyJobsSource", jobsUrl)

\* Lines 121-134: the browser-assisted (or, with classifyWithBrowser false,
\* the plain) discoverJobsUrl answers.
DiscoverAnswered(i) ==
    /\ batch.orgs[i].pc = "discover"
    /\ LET o == batch.orgs[i] IN
       \/ \E discovered \in DiscoveredResults :
            batch' = [batch EXCEPT !.orgs[i] = AfterDiscovered(o, discovered)]
       \/ LET t == [Settle(o, "threw", EmptyUrl) EXCEPT !.threw = TRUE] IN
          batch' = [batch EXCEPT !.orgs[i] =
                        IF batch.classifyWithBrowser
                        THEN Call(t, "discoverRetry", "discoverJobsUrl", t.homepageUrl)
                        ELSE OrgFail(t)]

\* Lines 135-139: discoverJobsUrl without the browser answers.
DiscoverRetryAnswered(i) ==
    /\ batch.orgs[i].pc = "discoverRetry"
    /\ LET o == batch.orgs[i] IN
       \/ \E discovered \in DiscoveredResults :
            batch' = [batch EXCEPT !.orgs[i] = AfterDiscovered(o, discovered)]
       \/ batch' = [batch EXCEPT !.orgs[i] =
                        OrgFail([Settle(o, "threw", EmptyUrl) EXCEPT !.threw = TRUE])]

\* Lines 144-161, 177-179: resolveJobsViaSearch answers.
ResearchJobsAnswered(i) ==
    /\ batch.orgs[i].pc = "researchJobs"
    /\ LET o == batch.orgs[i] IN
       \/ batch' = [batch EXCEPT !.orgs[i] =
                        OrgReturn(Settle(o, "returned", EmptyUrl), manualClassification)]
       \/ \E r \in ResearchedJobs :
            batch' = [batch EXCEPT !.orgs[i] =
                        Call([Settle(o, "returned", r.url) EXCEPT
                                 !.jobsUrl = r.url, !.discoveredVia = r.discoveredVia],
                             "classify", "classifyJobsSource", r.url)]
       \/ batch' = [batch EXCEPT !.orgs[i] =
                        OrgFail([Settle(o, "threw", EmptyUrl) EXCEPT !.threw = TRUE])]

\* Lines 160-174: classifyJobsSource answers.
ClassifyAnswered(i) ==
    /\ batch.orgs[i].pc = "classify"
    /\ LET o == batch.orgs[i] IN
       \/ \E classification \in Classifications :
            batch' = [batch EXCEPT !.orgs[i] =
                        OrgReturn(Settle(o, "returned", EmptyUrl), classification)]
       \/ LET t == [Settle(o, "threw", EmptyUrl) EXCEPT !.threw = TRUE] IN
          batch' = [batch EXCEPT !.orgs[i] =
                        IF batch.classifyWithBrowser
                        THEN Call(t, "classifyRetry", "classifyJobsSource", t.jobsUrl)
                        ELSE OrgFail(t)]

\* Lines 175-176: classifyJobsSource without the browser answers.
ClassifyRetryAnswered(i) ==
    /\ batch.orgs[i].pc = "classifyRetry"
    /\ LET o == batch.orgs[i] IN
       \/ \E classification \in Classifications :
            batch' = [batch EXCEPT !.orgs[i] =
                        OrgReturn(Settle(o, "returned", EmptyUrl), classification)]
       \/ batch' = [batch EXCEPT !.orgs[i] =
                        OrgFail([Settle(o, "threw", EmptyUrl) EXCEPT !.threw = TRUE])]


\* mapWithConcurrency(items, concurrency, mapper): cursor counts the items
\* taken, workers[w] is the worker's position (awaiting the mapper call of
\* item idx, done, or rejected), results the array it fills, outcome how the
\* returned promise settled; invocations[i] lists the items that mapper was
\* called with for index i.
BatchIdle ==
    [pc |-> "idle", classifyWithBrowser |-> TRUE, concurrency |-> 1, seeds |-> <<>>,
     orgs |-> <<>>, cursor |-> 0, workers |-> <<>>, results |-> <<>>,
     invocations |-> <<>>, outcome |-> "none"]

\* The concurrency argument: one worker, or as many as the bound allows.
Concurrencies == {1, MaxWorkers}

SeedLists ==
    UNION { [1..n -> SeedHomepages] : n \in 0..MaxOrgs }

BatchInit ==
    batch \in { [BatchIdle EXCEPT !.pc = "start", !.classifyWithBrowser = b,
                                  !.concurrency = c, !.seeds = s,
                                  !.orgs = [i \in 1..Len(s) |-> OrgIdle],
                                  !.results = [i \in 1..Len(s) |-> NoRecord],
                                  !.invocations = [i \in 1..Len(s) |-> <<>>]] :
                  b \in BOOLEAN, c \in Concurrencies, s \in SeedLists }

\* Lines 15-17: idx = cursor; cursor += 1; mapper(items[idx], idx) runs up to
\* its first await.
WorkerTake(b, w) ==
    LET idx == b.cursor + 1 IN
    [b EXCEPT !.cursor = idx,
              !.orgs[idx] = OrgStart(b.seeds[idx]),
              !.invocations[idx] = Append(@, b.seeds[idx]),
              !.workers[w] = [pc |-> "await", idx |-> idx]]

\* Line 21: the workers are created one after the other; each runs up to
\* its first await.
RECURSIVE StartWorkers(_, _)
StartWorkers(b, w) ==
    IF w > Len(b.workers) THEN b
    ELSE StartWorkers(IF b.cursor < Len(b.seeds) THEN WorkerTake(b, w)
                      ELSE [b EXCEPT !.workers[w].pc = "done"],
                      w + 1)

\* Lines 22-23: Promise.all settles: rejected with the first rejection,
\* fulfilled once every worker has returned.
PromiseAll(b) ==
    IF b.outcome # "none" THEN b
    ELSE IF \E w \in 1..Len(b.workers) : b.workers[w].pc = "rejected"
         THEN [b EXCEPT !.outcome = "rejected"]
    ELSE IF \A w \in 1..Len(b.workers) : b.workers[w].pc = "done"
         THEN [b EXCEPT !.outcome = "returned", !.pc = "done"]
    ELSE b

\* A mapWithConcurrency that creates one worker for every item.
MapStartWorkerPerItem ==
    /\ batch.pc = "start"
    /\ LET n == Len(batch.seeds)
           b == [batch EXCEPT !.pc = "running",
                              !.workers = [w \in 1..n |-> [pc |-> "new", idx |-> 0]]]
       IN  batch' = PromiseAll(StartWorkers(b, 1))

\* Lines 10-22.
MapStart ==
    /\ batch.pc = "start"
    /\ LET n == Min(batch.concurrency, Len(batch.seeds))
           b == [batch EXCEPT !.pc = "running",
                              !.workers = [w \in 1..n |-> [pc |-> "new", idx |-> 0]]]
       IN  batch' = PromiseAll(StartWorkers(b, 1))

\* Lines 14-18: the mapper call of worker w has settled; the result is
\* stored and the loop goes on, or the rejection ends the worker.
WorkerResume(w) ==
    /\ batch.pc = "running"
    /\ w \in 1..Len(batch.workers)
    /\ batch.workers[w].pc = "await"
    /\ LET idx == batch.workers[w].idx
           o == batch.orgs[idx]
       IN  /\ o.outcome # "none"
           /\ batch' =
                IF o.outcome = "reject"
                THEN PromiseAll([batch EXCEPT !.workers[w].pc = "rejected"])
                ELSE LET b == [batch EXCEPT !.results[idx] = o.record] IN
                     IF b.cursor < Len(b.seeds)
                     THEN WorkerTake(b, w)
                     ELSE PromiseAll([b EXCEPT !.workers[w].pc = "done"])

BatchNext ==
    \/ MapStart
    \/ \E w \in 1..MaxOrgs : WorkerResume(w)
    \/ \E i \in OrgIds :
         /\ i \in 1..Len(batch.orgs)
         /\ \/ ResearchHomepageAnswered(i)
            \/ DiscoverAnswered(i)
            \/ DiscoverRetryAnswered(i)
            \/ ResearchJobsAnswered(i)
            \/ ClassifyAnswered(i)
            \/ ClassifyRetryAnswered(i)


(***************************************************************************)
(* webResearch: resolveHomepageViaSearch and resolveJobsViaSearch.  A name  *)
(* is the sequence of its lower-cased alphanumeric words.  Scores are whole *)
(* numbers around the thresholds of the code.                               *)
(***************************************************************************)
MaxCandidates == 2

NAME_STOP_WORDS ==
    {"and", "band", "city", "county", "de", "first", "for", "from", "indian",
     "la", "lake", "les", "nation", "nations", "of", "on", "ontario",
     "reserve", "the", "to", "town", "township", "village"}

OrgNames ==
    { <<>>,
      <<"town", "of", "st">>,
      <<"first", "nation">>,
      <<"kenora">>,
      <<"sioux", "lookout">>,
      <<"wabigoon", "lake", "first", "nation">> }

\* part.length of the words used in OrgNames
WordLength(w) ==
    CASE w \in {"of", "st"} -> 2
      [] w \in {"town", "lake"} -> 4
      [] w = "first" -> 5
      [] w \in {"nation", "kenora"} -> 6
      [] OTHER -> 8

RECURSIVE normalizeForMatch(_)
normalizeForMatch(ws) ==
    IF ws = <<>> THEN <<>>
    ELSE IF /\ Len(ws) >= 2
            /\ <<ws[1], ws[2]>> \in {<<"first", "nation">>, <<"first", "nations">>,
                                     <<"indian", "band">>}
         THEN normalizeForMatch(SubSeq(ws, 3, Len(ws)))
    ELSE IF ws[1] \in {"nation", "band"}
         THEN normalizeForMatch(Tail(ws))
    ELSE <<ws[1]>> \o normalizeForMatch(Tail(ws))

KeptToken(part) == WordLength(part) >= 3 /\ part \notin NAME_STOP_WORDS

getNameTokensAnyLength(name) ==
    SelectSeq(normalizeForMatch(name), LAMBDA part : part \notin NAME_STOP_WORDS)

getNameTokens(name) == SelectSeq(normalizeForMatch(name), KeptToken)

OrgTypes == {"first_nation", "municipality"}

\* number of queries of buildHomepageQueries / buildJobsQueries
QueryCount(fn, orgType, hasHomepage) ==
    IF fn = "homepage"
    THEN (IF orgType = "first_nation" THEN 3 ELSE 2)
    ELSE (IF hasHomepage THEN 3 ELSE 0) + 2

\* best.score at which the query loops stop
StopScore(fn) == IF fn = "homepage" THEN 9 ELSE 12

NoScore == -1

KgScores == {NoScore, 4, 5, 7}

\* BLOCKED_HOST_PATTERNS: each pattern is /(^|\.)domain$/i; a host is written
\* as its labels before the domain followed by the domain.
BLOCKED_HOST_PATTERNS ==
    {"aadnc-aandc.gc.ca", "rcaanc-cirnac.gc.ca", "canada.ca", "wikipedia.org",
     "wikidata.org", "youtube.com", "facebook.com", "instagram.com", "linkedin.com",
     "reddit.com", "msn.com", "x.com", "twitter.com", "search.brave.com", "bing.com",
     "duckduckgo.com"}

\* isBlockedHost, lines 131-133: the host is a listed domain or ends with one.
isBlockedHost(host) == host # <<>> /\ host[Len(host)] \in BLOCKED_HOST_PATTERNS

\* parseHostname: '' when the string does not parse.
parseHostname(u) == IF u.kind = "url" THEN u.host ELSE <<>>

\* hostPathValue: hostname and pathname.
hostPathValue(u) ==
    IF u.kind # "url" THEN Tokens(u)
    ELSE u.host \o PathTokens(u.segs) \o (IF u.segs = <<>> \/ u.slash THEN <<"/">> ELSE <<>>)

\* The name tokens that a token of a URL holds as a substring.
NameTokensIn(t) ==
    CASE t = "kenora.ca" -> {"kenora"}
      [] t = "siouxlookout.ca" -> {"sioux", "lookout"}
      [] OTHER -> {}

\* The CAREER_TERMS that a token of a URL holds as a substring.
CareerTermsIn(t) ==
    CASE t \in {"jobs", "myworkdayjobs.com", "governmentjobs.com"} -> {"jobs"}
      [] t = "careers" -> {"career", "careers"}
      [] t \in {"career", "careersection"} -> {"career"}
      [] t = "employment" -> {"employment"}
      [] t = "opportunities" -> {"opportunities"}
      [] OTHER -> {}

\* countTokenHits(text, tokens) for the text of a URL: one hit for every
\* entry of tokens that the text includes.
countTokenHits(text, tokens) ==
    Cardinality({ k \in 1..Len(tokens) :
                    \E i \in 1..Len(text) : tokens[k] \in NameTokensIn(text[i]) })

\* keywordHitsInValue(value, CAREER_TERMS) for the text of a URL.
keywordHitsInValue(value) ==
    Cardinality(UNION { CareerTermsIn(value[i]) : i \in 1..Len(value) })

\* A page as the scoring functions read it: the response after the http://
\* retry (ok is false for null or a status of 400 or more), its final URL,
\* the name tokens and the number of CAREER_TERMS in its title and body,
\* the points of the wording tests of scoreHomepageCandidate (official
\* website|welcome, and the words of the organization type), and whether the
\* content type names pdf.
MkFetched(url, nameTokens, careerTerms, wording, pdfType) ==
    [ok |-> TRUE, url |-> url, nameTokens |-> nameTokens, careerTerms |-> careerTerms,
     wording |-> wording, pdfType |-> pdfType]

NotFetched ==
    [ok |-> FALSE, url |-> EmptyUrl, nameTokens |-> {}, careerTerms |-> 0,
     wording |-> 0, pdfType |-> FALSE]

\* countTokenHits(textSource, tokens) for the text of a page.
PageTokenHits(page, tokens) ==
    Cardinality({ k \in 1..Len(tokens) : tokens[k] \in page.nameTokens })

\* CandidateScore | null
MkScored(url, score, discoveredVia) ==
    [url |-> url, score |-> score, discoveredVia |-> discoveredVia]

NoScored == MkScored(EmptyUrl, NoScore, "none")

\* normalizeHomeCandidate: the origin of the cleaned URL.
normalizeHomeCandidate(u) ==
    IF cleanUrl(u).kind # "url" THEN cleanUrl(u)
    ELSE cleanUrl([cleanUrl(u) EXCEPT !.segs = <<>>])

\* The tokens of a host and path that /wikipedia|news|obituary|tripadvisor|
\* booking|casino/ matches.
PenalisedTokens == {"wikipedia.org", "kenoranews.ca"}

\* scoreHomepageCandidate (lines 409-470) for a candidate and the page that
\* its fetch gives.
scoreHomepageCandidate(candidateUrl, tokens, page) ==
    LET candidate == normalizeHomeCandidate(candidateUrl)
        host == parseHostname(candidate)
        hostPath == hostPathValue(candidate)
        tokenHitsOnPage == PageTokenHits(page, tokens)
        tokenHitsOnHost == countTokenHits(hostPath, tokens)
        score == tokenHitsOnPage * 2 + tokenHitsOnHost * 3 + page.wording
                 - (IF \E i \in 1..Len(hostPath) : hostPath[i] \in PenalisedTokens
                    THEN 4 ELSE 0)
    IN  IF host = <<>> \/ isBlockedHost(host) THEN NoScored
        ELSE IF ~page.ok THEN NoScored
        ELSE IF tokenHitsOnPage = 0 /\ tokenHitsOnHost = 0 THEN NoScored
        ELSE MkScored(cleanUrl(page.url), score, "manual")

\* An immediate accept decided by the candidate's own URL.
AtsImmediateByCandidate(cleanedCandidate, page) == isKnownAtsUrl(cleanedCandidate)

\* Lines 519-527: the fetch answered with a success status and its final
\* URL, cleaned, is a known ATS URL.
AtsImmediate(cleanedCandidate, page) == page.ok /\ isKnownAtsUrl(cleanUrl(page.url))

\* Lines 485-499: the points that the candidate's own URL gives.
jobsUrlScore(knownAts, hasHomepage, onHomepageHost, hostPath, tokens) ==
    (IF knownAts THEN 10 ELSE 0)
    + (IF hasHomepage /\ onHomepageHost THEN 3
       ELSE IF hasHomepage /\ ~knownAts THEN -1 ELSE 0)
    + keywordHitsInValue(hostPath) * 2
    + countTokenHits(hostPath, tokens)

\* Lines 481-484, 518-559: the value returned, given the points of the URL,
\* whether the page and the candidate are PDFs and whether the fetched page
\* is an immediate accept.
jobsCandidateScored(cleanedCandidate, finalUrl, tokens, page, urlScore, pagePdf, candidatePdf, immediate) ==
    IF parseHostname(cleanedCandidate) = <<>> \/ isBlockedHost(parseHostname(cleanedCandidate))
    THEN NoScored
    ELSE IF immediate THEN MkScored(finalUrl, 100, "manual")
    ELSE IF page.ok
         THEN MkScored(finalUrl,
                       urlScore + page.careerTerms + PageTokenHits(page, tokens)
                         + (IF pagePdf THEN 4 ELSE 0),
                       IF pagePdf THEN "pdf" ELSE "manual")
    ELSE IF urlScore + (IF candidatePdf THEN 4 ELSE 0) <= 0 THEN NoScored
    ELSE MkScored(cleanedCandidate, urlScore + (IF candidatePdf THEN 4 ELSE 0),
                  IF candidatePdf THEN "pdf" ELSE "manual")

\* scoreJobsCandidate after cleanUrl of the candidate and of the final URL.
scoreCleanedJobsCandidate(cleanedCandidate, finalUrl, homepageUrl, tokens, page) ==
    jobsCandidateScored(cleanedCandidate, finalUrl, tokens, page,
        jobsUrlScore(isKnownAtsUrl(cleanedCandidate), homepageUrl.kind # "empty",
                     homepageUrl.kind # "empty" /\ sameHost(cleanedCandidate, homepageUrl),
                     hostPathValue(cleanedCandidate), tokens),
        looksLikePdf(finalUrl) \/ page.pdfType,
        looksLikePdf(cleanedCandidate),
        AtsImmediate(cleanedCandidate, page))

\* scoreJobsCandidate (lines 473-560) for a candidate and the page that its
\* fetch gives.
scoreJobsCandidate(candidateUrl, homepageUrl, tokens, page) ==
    scoreCleanedJobsCandidate(cleanUrl(candidateUrl), cleanUrl(page.url), homepageUrl,
                              tokens, page)

\* uniqueCandidates: the cleaned candidates, each once, in order.  An offer
\* is a candidate URL of a result page with the page that fetching it gives.
RECURSIVE uniqueCandidates(_, _)
uniqueCandidates(offers, seen) ==
    IF offers = <<>> THEN <<>>
    ELSE LET cleaned == cleanUrl(Head(offers).url) IN
         IF cleaned.kind = "empty" \/ cleaned \in seen
         THEN uniqueCandidates(Tail(offers), seen)
         ELSE <<[Head(offers) EXCEPT !.url = cleaned]>>
              \o uniqueCandidates(Tail(offers), seen \cup {cleaned})


\* candidate.startsWith('http')
startsWithHttp(u) == u.kind # "empty"

\* Lines 642-646: the candidates of one homepage query, as origins.
homepageCandidates(offers) ==
    LET unique == uniqueCandidates(offers, {})
        origins == [i \in 1..Len(unique) |->
                       [unique[i] EXCEPT !.url = normalizeHomeCandidate(@)]]
    IN  uniqueCandidates(SelectSeq(origins, LAMBDA o : startsWithHttp(o.url)), {})

KenoraHome == MkUrl(<<"kenora.ca">>, <<>>, FALSE, "", FALSE)
SiouxLookoutAbout == MkUrl(<<"siouxlookout.ca">>, <<"about">>, FALSE, "", FALSE)
SiouxLookoutHome == MkUrl(<<"siouxlookout.ca">>, <<>>, FALSE, "", FALSE)
FacebookPage == MkUrl(<<"www.", "facebook.com">>, <<"kenora">>, FALSE, "", FALSE)
TownJobs == MkUrl(<<"town.ca">>, <<"jobs">>, FALSE, "", FALSE)
TownCareers == MkUrl(<<"town.ca">>, <<"careers">>, FALSE, "", FALSE)
NeogovHome == MkUrl(<<"x.", "neogov.com">>, <<>>, FALSE, "", FALSE)
IcimsJobs == MkUrl(<<"x.", "icims.com">>, <<"jobs">>, FALSE, "", FALSE)

MkOffer(url, page) == [url |-> url, page |-> page]

\* What a result page can offer to resolveHomepageViaSearch.
HomepageOffers ==
    { MkOffer(KenoraHome, MkFetched(KenoraHome, {}, 0, 0, FALSE)),
      MkOffer(KenoraHome, MkFetched(FacebookPage, {}, 0, 1, FALSE)),
      MkOffer(HomepageUrl, MkFetched(HomepageUrl, {"kenora", "sioux"}, 0, 2, FALSE)),
      MkOffer(SiouxLookoutAbout, MkFetched(SiouxLookoutHome, {"sioux", "lookout"}, 0, 1, FALSE)) }

\* What a result page can offer to resolveJobsViaSearch.
JobsOffers ==
    { MkOffer(TownCareers, MkFetched(TownCareers, {}, 0, 0, FALSE)),
      MkOffer(TownCareers, MkFetched(IcimsJobs, {}, 2, 0, FALSE)),
      MkOffer(TownJobs, MkFetched(FacebookPage, {"kenora"}, 1, 0, FALSE)),
      MkOffer(NeogovHome, NotFetched),
      MkOffer(FacebookPage, MkFetched(FacebookPage, {"kenora"}, 3, 0, FALSE)) }

\* The record of a call: best, bestUrl and bestVia are the fields of best
\* (bestVia is "none" while best is null); seen holds, for every score that a
\* scored candidate had, the first candidate scored with it; lastCall is the
\* last call of score*Candidate that the query loop made: the candidate
\* passed, the page its fetch gave and the value returned; stopAt holds the
\* numbers of candidates scored and queries issued when a scored candidate
\* first had the stop score.
ResIdle ==
    [pc |-> "idle", fn |-> "none", orgName |-> <<>>, orgType |-> "none",
     hasHomepage |-> FALSE, tokens |-> <<>>, kgRequests |-> 0,
     searchRequests |-> 0, candidatesScored |-> 0, kgQuery |-> 0,
     kgBest |-> NoScore, queryIdx |-> 0, best |-> NoScore,
     bestUrl |-> EmptyUrl, bestVia |-> "none", seen |-> {},
     lastCall |-> [candidate |-> EmptyUrl, page |-> NotFetched, scored |-> NoScored],
     stopAt |-> [scored |-> 0, requests |-> 0],
     result |-> [source |-> "none", score |-> NoScore],
     resultUrl |-> EmptyUrl, resultVia |-> "none"]

ResInit == res = ResIdle

ResNull(r) == [r EXCEPT !.pc = "done", !.result = [source |-> "null", score |-> NoScore]]

\* resolve*ViaSearch after the query loops
ResFinish(r) ==
    IF r.bestVia = "none" \/ r.best < 4
    THEN ResNull(r)
    ELSE [r EXCEPT !.pc = "done", !.result = [source |-> "search", score |-> r.best],
                   !.resultUrl = cleanUrl(r.bestUrl), !.resultVia = r.bestVia]

StartSearch(r) ==
    [r EXCEPT !.pc = "search", !.queryIdx = 1, !.best = NoScore]

WikidataAcceptedStrict(score) == score # NoScore /\ score >= 6

WikidataAccepted(score) == score # NoScore /\ score >= 5

\* resolveHomepageViaSearch once resolveHomepageViaWikidata has returned
AfterWikidata(r) ==
    IF WikidataAccepted(r.kgBest)
    THEN [r EXCEPT !.pc = "done", !.result = [source |-> "wikidata", score |-> r.kgBest]]
    ELSE StartSearch(r)

\* the next query of resolveHomepageViaWikidata, or its return
NextKgQuery(r) ==
    IF r.kgQuery < 2
    THEN [r EXCEPT !.pc = "wikidata", !.kgQuery = r.kgQuery + 1]
    ELSE AfterWikidata(r)

ResolveStart ==
    /\ res.pc = "idle"
    /\ \E fn \in {"homepage", "jobs"}, name \in OrgNames, orgType \in OrgTypes,
          hasHomepage \in BOOLEAN :
          /\ fn = "homepage" => ~hasHomepage
          /\ LET r == [ResIdle EXCEPT !.fn = fn, !.orgName = name,
                                      !.orgType = orgType,
                                      !.hasHomepage = hasHomepage,
                                      !.tokens = getNameTokens(name)]
             IN res' = IF r.tokens = <<>> THEN ResNull(r)
                       ELSE IF fn = "jobs" THEN StartSearch(r)
                       ELSE IF orgType # "first_nation" THEN AfterWikidata(r)
                       ELSE NextKgQuery(r)

\* wbsearchentities answered: no usable item, or one that passes the filters
WikidataSearchAnswered ==
    /\ res.pc = "wikidata"
    /\ \E usable \in BOOLEAN :
          LET r == [res EXCEPT !.kgRequests = res.kgRequests + 1]
          IN res' = IF usable THEN [r EXCEPT !.pc = "entity"] ELSE NextKgQuery(r)

\* Special:EntityData answered: nothing, or an entity with an official website
WikidataEntityAnswered ==
    /\ res.pc = "entity"
    /\ \E website \in BOOLEAN :
          LET r == [res EXCEPT !.kgRequests = res.kgRequests + 1]
          IN res' = IF website THEN [r EXCEPT !.pc = "kgScore"] ELSE NextKgQuery(r)

\* scoreHomepageCandidate of the official website, with the boost added
WikidataCandidateScored ==
    /\ res.pc = "kgScore"
    /\ \E score \in KgScores :
          LET r == [res EXCEPT !.candidatesScored = res.candidatesScored + 1,
                               !.kgBest = IF score # NoScore /\ score > res.kgBest
                                          THEN score ELSE res.kgBest]
          IN res' = NextKgQuery(r)

TokenLists == { getNameTokens(name) : name \in OrgNames }

\* The values of scoreHomepageCandidate and scoreJobsCandidate on the
\* candidates that the query loops pass to them: origins for a homepage,
\* cleaned URLs for a jobs page.
HomepageScores ==
    [t \in TokenLists,
     o \in { [f EXCEPT !.url = normalizeHomeCandidate(cleanUrl(@))] : f \in HomepageOffers } |->
        scoreHomepageCandidate(o.url, t, o.page)]

JobsScores ==
    [h \in {HomepageUrl, EmptyUrl}, t \in TokenLists,
     o \in { [f EXCEPT !.url = cleanUrl(@)] : f \in JobsOffers } |->
        scoreJobsCandidate(o.url, h, t, o.page)]

\* score*Candidate as the query loop of the call calls it
scoreCandidate(r, offer) ==
    IF r.fn = "homepage"
    THEN HomepageScores[r.tokens, offer]
    ELSE JobsScores[IF r.hasHomepage THEN HomepageUrl ELSE EmptyUrl, r.tokens, offer]

\* A comparison that lets a later candidate with the same score win.
ReplacesBestOnTie(r, scored) == r.bestVia = "none" \/ scored.score >= r.best

\* Lines 649-651, 693-695: !best || scored.score > best.score
ReplacesBest(r, scored) == r.bestVia = "none" \/ scored.score > r.best

\* the candidate loop of one query (lines 647-656, 689-699)
RECURSIVE ScoreCandidates(_, _)
ScoreCandidates(offers, r0) ==
    IF offers = <<>> THEN r0
    ELSE LET scored == scoreCandidate(r0, Head(offers))
             r == [r0 EXCEPT !.candidatesScored = @ + 1,
                             !.lastCall = [candidate |-> Head(offers).url,
                                           page |-> Head(offers).page,
                                           scored |-> scored]]
             taken == IF ReplacesBest(r, scored)
                      THEN [r EXCEPT !.best = scored.score, !.bestUrl = scored.url,
                                     !.bestVia = scored.discoveredVia]
                      ELSE r
             noted == [taken EXCEPT
                         !.seen = IF \E s \in @ : s.score = scored.score
                                  THEN @ ELSE @ \cup {scored},
                         !.stopAt = IF scored.score >= StopScore(r.fn) /\ @.scored = 0
                                    THEN [scored |-> r.candidatesScored,
                                          requests |-> r.searchRequests]
                                    ELSE @]
         IN IF scored = NoScored THEN ScoreCandidates(Tail(offers), r)
            ELSE IF noted.best >= StopScore(r.fn) THEN noted
            ELSE ScoreCandidates(Tail(offers), noted)

\* searchBraveCandidates answered and its candidates scored
ResolveQueryAnswered ==
    /\ res.pc = "search"
    /\ \E n \in 0..MaxCandidates :
          \E offers \in [1..n -> IF res.fn = "homepage" THEN HomepageOffers
                                 ELSE JobsOffers] :
             LET list == IF res.fn = "homepage" THEN homepageCandidates(offers)
                         ELSE uniqueCandidates(offers, {})
                 r == ScoreCandidates(list,
                                      [res EXCEPT !.searchRequests = res.searchRequests + 1])
             IN res' = IF r.bestVia # "none" /\ r.best >= StopScore(r.fn)
                       THEN ResFinish(r)
                       ELSE IF r.queryIdx < QueryCount(r.fn, r.orgType, r.hasHomepage)
                       THEN [r EXCEPT !.queryIdx = r.queryIdx + 1]
                       ELSE ResFinish(r)

ResNext ==
    \/ ResolveStart
    \/ WikidataSearchAnswered
    \/ WikidataEntityAnswered
    \/ WikidataCandidateScored
    \/ ResolveQueryAnswered


(***************************************************************************)
(* The three URL normalisers with the query kept as a list of parameters:   *)
(* cleanUrl (utils/url), normalizeJobsUrlKey and sanitizeUrl.  A parameter  *)
(* is a key and the written form of its value: "plain", "pct" for a value   *)
(* written with a percent escape that URLSearchParams writes otherwise, or  *)
(* "form" for a value as URLSearchParams writes it.                         *)
(***************************************************************************)
MaxParams == 2

TRACKING_PARAMS_UtmOnly ==
    {"utm_source", "utm_medium", "utm_campaign", "utm_term", "utm_content"}

TRACKING_PARAMS ==
    {"utm_source", "utm_medium", "utm_campaign", "utm_term", "utm_content",
     "gclid", "fbclid", "mc_cid", "mc_eid"}

ParamKeys == {"utm_source", "UTM_MEDIUM", "utm_id", "gclid", "fbclid", "mc_cid", "q"}

\* key.toLowerCase()
LowerKey(key) == IF key = "UTM_MEDIUM" THEN "utm_medium" ELSE key

\* TRACKING_PARAM_PATTERN / TRACKING_PARAMS: /^utm_/i, /^fbclid$/i, /^gclid$/i
MatchesTrackingPattern(key) ==
    \/ LowerKey(key) \in {"utm_source", "utm_medium", "utm_id"}
    \/ LowerKey(key) \in {"fbclid", "gclid"}

Params ==
    {[key |-> k, form |-> "plain"] : k \in ParamKeys} \cup {[key |-> "q", form |-> "pct"]}

QueryUrls ==
    {[segs |-> s, slash |-> sl, params |-> ps, hash |-> h] :
        s \in {<<>>, <<"jobs">>}, sl \in BOOLEAN, h \in BOOLEAN,
        ps \in UNION {[1..n -> Params] : n \in 0..MaxParams}}

\* The WHATWG URL of a string has pathname "/" for the root with or without
\* a slash.
ParsedUrls == {u \in QueryUrls : u.segs = <<>> => ~u.slash}

\* url.searchParams.delete for every key that Drop accepts: when a key is
\* deleted the query is written again from the parameter list.
DeleteParams(params, Drop(_)) ==
    IF \E k \in 1..Len(params) : Drop(params[k].key)
    THEN LET kept == SelectSeq(params, LAMBDA p : ~Drop(p.key))
         IN [k \in 1..Len(kept) |->
                [kept[k] EXCEPT !.form = IF @ = "pct" THEN "form" ELSE @]]
    ELSE params

StripSlash(u) == IF u.segs # <<>> /\ u.slash THEN FALSE ELSE u.slash

cleanUrlWithQuery(u) ==
    [segs |-> u.segs,
     slash |-> StripSlash(u),
     params |-> DeleteParams(u.params, LAMBDA key : LowerKey(key) \in TRACKING_PARAMS),
     hash |-> FALSE]

normalizeJobsUrlKey(u) ==
    LET cleaned == cleanUrlWithQuery(u)
    IN [segs |-> cleaned.segs,
        slash |-> StripSlash(cleaned),
        params |-> DeleteParams(cleaned.params, MatchesTrackingPattern),
        hash |-> FALSE]

sanitizeUrl(u) ==
    LET cleaned == cleanUrlWithQuery(u)
    IN [segs |-> cleaned.segs,
        slash |-> StripSlash(cleaned),
        params |-> DeleteParams(cleaned.params, MatchesTrackingPattern),
        hash |-> FALSE]

\* u without its utm_*, gclid and fbclid parameters, fragment and trailing
\* slash, everything else as written in u.
Stripped(u) ==
    [segs |-> u.segs,
     slash |-> StripSlash(u),
     params |-> SelectSeq(u.params, LAMBDA p : ~MatchesTrackingPattern(p.key)),
     hash |-> FALSE]

RootUrl == [segs |-> <<>>, slash |-> FALSE, params |-> <<>>, hash |-> FALSE]

NotApplied == [applied |-> FALSE, url |-> RootUrl, stripped |-> RootUrl]

NormIdle == [pc |-> "idle", url |-> RootUrl, cleanUrl |-> NotApplied,
             normalizeJobsUrlKey |-> NotApplied, sanitizeUrl |-> NotApplied]

NormInit ==
    \E u \in ParsedUrls : norm = [NormIdle EXCEPT !.pc = "given", !.url = u]

ApplyCleanUrl ==
    /\ norm.pc = "given"
    /\ ~norm.cleanUrl.applied
    /\ norm' = [norm EXCEPT !.cleanUrl =
                  [applied |-> TRUE, url |-> cleanUrlWithQuery(norm.url),
                   stripped |-> cleanUrlWithQuery(Stripped(norm.url))]]

ApplyNormalizeJobsUrlKey ==
    /\ norm.pc = "given"
    /\ ~norm.normalizeJobsUrlKey.applied
    /\ norm' = [norm EXCEPT !.normalizeJobsUrlKey =
                  [applied |-> TRUE, url |-> normalizeJobsUrlKey(norm.url),
                   stripped |-> normalizeJobsUrlKey(Stripped(norm.url))]]

ApplySanitizeUrl ==
    /\ norm.pc = "given"
    /\ ~norm.sanitizeUrl.applied
    /\ norm' = [norm EXCEPT !.sanitizeUrl =
                  [applied |-> TRUE, url |-> sanitizeUrl(norm.url),
                   stripped |-> sanitizeUrl(Stripped(norm.url))]]

NormNext == ApplyCleanUrl \/ ApplyNormalizeJobsUrlKey \/ ApplySanitizeUrl


(***************************************************************************)
(* Two calls of discoverJobsUrl, one after the other, with the same         *)
(* arguments.  The first call hears any answers and they are written down;  *)
(* the second call is given the written answers in the same order.          *)
(***************************************************************************)
TwinIdle == [run |-> 0, input |-> DiscIdle, heard |-> <<>>, k |-> 0,
             first |-> DiscoveryPending]

TwinInit ==
    /\ DiscInit
    /\ twin = [TwinIdle EXCEPT !.run = 1, !.input = disc]

\* the answers the fetcher or renderer can give now to the question at
Offered(at, answers) ==
    IF twin.run = 1 THEN answers
    ELSE {a \in answers : /\ twin.k <= Len(twin.heard)
                          /\ twin.heard[twin.k].at = at
                          /\ twin.heard[twin.k].answer = a}

Hear(at, answer) ==
    twin' = IF twin.run = 1
            THEN [twin EXCEPT !.heard = Append(@, [at |-> at, answer |-> answer])]
            ELSE [twin EXCEPT !.k = @ + 1]

GotoFailure == [ok |-> FALSE, links |-> <<>>, requests |-> <<>>]

GotoAnswers ==
    {GotoFailure} \cup
    {[ok |-> TRUE, links |-> l, requests |-> r] : l \in LinkLists, r \in RequestLists}

\* The answers given in the two-call runs: a part of the answers of the
\* one-call runs, with a rejected, an accepted and a PDF probe answer, pages
\* with and without job links, rendered pages with and without captured
\* requests, and a sitemap with two locations.
TwinLinkLists == {l \in LinkLists : Len(l) >= 2 /\ l[1] = AboutLink}

TwinProbeAnswers(path) ==
    {r \in ProbeAnswers(path) :
        /\ r.ok /\ r.status = 200 /\ ~r.contentTypePdf
        /\ r.url.host = <<"town.ca">>
        /\ looksLikePdf(r.url) => keywordCount(r.body) = 1}

TwinPageAnswers(u) ==
    {p \in PageAnswers(u) : p.ok => p.status = 200 /\ p.hasBody /\ p.links \in TwinLinkLists}

TwinGotoAnswers ==
    {g \in GotoAnswers :
        g.ok => g.links \in TwinLinkLists /\ (Len(g.links) = 2) = (g.requests # <<>>)}

\* two locations with the same score, for the order of equal candidates
TiedLocs ==
    << MkUrl(<<"town.ca">>, <<"careers">>, FALSE, "", FALSE),
       MkUrl(<<"town.ca">>, <<"jobs">>, FALSE, "", FALSE) >>

TwinSitemapAnswers ==
    {p \in SitemapAnswers : ~p.ok} \cup {MkPage(200, TiedLocs, TRUE)}

TwinStart ==
    /\ twin.run \in {1, 2}
    /\ DiscoverStart
    /\ UNCHANGED twin

TwinProbe ==
    /\ twin.run \in {1, 2}
    /\ disc.pc = "probe"
    /\ \E response \in Offered("probe", TwinProbeAnswers(DiscPaths(disc)[disc.pathIdx])) :
         disc' = ProbeAnsweredStep(disc, response) /\ Hear("probe", response)

TwinLinkHome ==
    /\ twin.run \in {1, 2}
    /\ disc.pc = "linkHome"
    /\ \E homepage \in Offered("linkHome", TwinPageAnswers(disc.homepageUrl)) :
         disc' = LinkHomeAnsweredStep(disc, homepage) /\ Hear("linkHome", homepage)

TwinLinkPage ==
    /\ twin.run \in {1, 2}
    /\ disc.pc = "linkPage"
    /\ \E response \in Offered("linkPage", TwinPageAnswers(Head(disc.queue))) :
         disc' = LinkPageAnsweredStep(disc, response) /\ Hear("linkPage", response)

TwinNewPage ==
    /\ twin.run \in {1, 2}
    /\ disc.pc = "browserNewPage"
    /\ \E opened \in Offered("browserNewPage", BOOLEAN) :
         disc' = BrowserNewPageStep(disc, opened) /\ Hear("browserNewPage", opened)

TwinGoto ==
    /\ twin.run \in {1, 2}
    /\ disc.pc = "browserGoto"
    /\ \E page \in Offered("browserGoto", TwinGotoAnswers) :
         /\ page.ok => \A v \in disc.visited : v.kind = "url"
         /\ disc' = IF page.ok THEN BrowserGotoLoaded(disc, page.links, page.requests)
                    ELSE BrowserGotoFailed(disc)
         /\ Hear("browserGoto", page)

TwinClose ==
    /\ twin.run \in {1, 2}
    /\ disc.pc = "browserClose"
    /\ \E closed \in Offered("browserClose", BOOLEAN) :
         disc' = BrowserCloseStep(disc, closed) /\ Hear("browserClose", closed)

TwinSitemap ==
    /\ twin.run \in {1, 2}
    /\ disc.pc = "sitemap"
    /\ \E response \in Offered("sitemap", TwinSitemapAnswers) :
         disc' = SitemapAnsweredStep(disc, response) /\ Hear("sitemap", response)

\* the first call has returned or thrown; the second call starts
TwinAgain ==
    /\ twin.run = 1
    /\ disc.pc = "done"
    /\ disc' = twin.input
    /\ twin' = [twin EXCEPT !.run = 2, !.k = 1, !.first = disc.result]

TwinNext ==
    \/ TwinStart
    \/ TwinProbe
    \/ TwinLinkHome
    \/ TwinLinkPage
    \/ TwinNewPage
    \/ TwinGoto
    \/ TwinClose
    \/ TwinSitemap
    \/ TwinAgain


(***************************************************************************)
(* Weekly monitor: buildEligibleOrgs, buildJobsUrlGroups and the group loop *)
(* of runWeeklyPipeline.  Confidence is in hundredths.                      *)
(***************************************************************************)
MaxMonOrgs == 2

\* most postings one adapter run returns
MaxPostings == 2

JobsPage == [segs |-> <<"jobs">>, slash |-> FALSE, params |-> <<>>, hash |-> FALSE]

MkOrg(org_type, hasJobsUrl, jobs_url, confidence, jobs_source_type, adapter) ==
    [org_type |-> org_type, hasJobsUrl |-> hasJobsUrl, jobs_url |-> jobs_url,
     confidence |-> confidence, jobs_source_type |-> jobs_source_type,
     adapter |-> adapter]

\* rows of data/orgs.csv
OrgRows ==
    { MkOrg("municipality", h, IF h THEN JobsPage ELSE RootUrl, c, t, a) :
        h \in BOOLEAN, c \in {40, 50}, t \in {"manual_review", "html_list"},
        a \in {"manual", "html_list"} }
    \cup { MkOrg("first_nation", TRUE, JobsPage, 40, "html_list", "html_list"),
           MkOrg("first_nation", TRUE, [JobsPage EXCEPT !.slash = TRUE], 80,
                 "html_list", "html_list"),
           MkOrg("municipality", TRUE, [JobsPage EXCEPT !.segs = <<"careers">>], 80,
                 "ats_icims", "icims") }

isEligibleWhateverAdapter(org) ==
    /\ org.hasJobsUrl
    /\ org.confidence >= 50
    /\ org.jobs_source_type # "manual_review"

isEligible(org) ==
    /\ org.hasJobsUrl
    /\ org.confidence >= 50
    /\ org.jobs_source_type # "manual_review"
    /\ org.adapter # "manual"

\* buildEligibleOrgs: the indices of the eligible rows, in row order
RECURSIVE buildEligibleOrgs(_, _)
buildEligibleOrgs(orgs, i) ==
    IF i > Len(orgs) THEN [eligible |-> <<>>, skippedCount |-> 0]
    ELSE LET rest == buildEligibleOrgs(orgs, i + 1) IN
         IF isEligible(orgs[i])
         THEN [rest EXCEPT !.eligible = <<i>> \o @]
         ELSE [rest EXCEPT !.skippedCount = @ + 1]

\* a.key.localeCompare(b.key) < 0 for the keys of the model
KeyBefore(a, b) == a.segs = <<"careers">> /\ b.segs = <<"jobs">>

\* buildJobsUrlGroups before the sort: one group per key, in first-seen order
RECURSIVE GroupsOf(_, _, _)
GroupsOf(orgs, eligible, groups) ==
    IF eligible = <<>> THEN groups
    ELSE LET i == Head(eligible)
             key == normalizeJobsUrlKey(orgs[i].jobs_url)
         IN  IF \E g \in 1..Len(groups) : groups[g].key = key
             THEN GroupsOf(orgs, Tail(eligible),
                           [g \in 1..Len(groups) |->
                               IF groups[g].key = key
                               THEN [groups[g] EXCEPT !.orgs = Append(@, i)]
                               ELSE groups[g]])
             ELSE GroupsOf(orgs, Tail(eligible),
                           Append(groups, [key |-> key, originalUrl |-> orgs[i].jobs_url,
                                           orgs |-> <<i>>]))

\* the sort by key, for the two keys of the model
SortByKey(groups) ==
    IF Len(groups) = 2 /\ KeyBefore(groups[2].key, groups[1].key)
    THEN <<groups[2], groups[1]>> ELSE groups

buildJobsUrlGroups(orgs, eligible) == SortByKey(GroupsOf(orgs, eligible, <<>>))

MonIdle ==
    [pc |-> "idle", orgs |-> <<>>, maxGroups |-> 0, eligible |-> <<>>,
     skippedCount |-> 0, groups |-> <<>>, gi |-> 0,
     total_orgs_in_csv |-> 0, eligible_orgs_count |-> 0,
     orgs_skipped_low_confidence_count |-> 0,
     groups_scraped_count |-> 0, groups_skipped_unreachable_count |-> 0,
     adapterRuns |-> {}, adapterCalls |-> <<>>, returned |-> {}, stored |-> {}]

MonInit ==
    \E n \in 0..MaxMonOrgs : \E orgs \in [1..n -> OrgRows] : \E maxGroups \in {0, 1} :
        mon = [MonIdle EXCEPT !.pc = "start", !.orgs = orgs, !.maxGroups = maxGroups]

\* the next group of the loop, or the end of the loop
NextGroup(m) ==
    IF m.gi < Len(m.groups)
    THEN [m EXCEPT !.pc = "resolve", !.gi = @ + 1]
    ELSE [m EXCEPT !.pc = "done"]

WeeklyStart ==
    /\ mon.pc = "start"
    /\ LET built == buildEligibleOrgs(mon.orgs, 1)
           groups == buildJobsUrlGroups(mon.orgs, built.eligible)
           limitedGroups == IF mon.maxGroups # 0
                            THEN SubSeq(groups, 1, Min(mon.maxGroups, Len(groups)))
                            ELSE groups
       IN  mon' = NextGroup([mon EXCEPT
                     !.eligible = built.eligible,
                     !.skippedCount = built.skippedCount,
                     !.groups = limitedGroups,
                     !.total_orgs_in_csv = Len(mon.orgs),
                     !.eligible_orgs_count = Len(built.eligible),
                     !.orgs_skipped_low_confidence_count = built.skippedCount])

\* resolveWorkingJobsUrl answered: null, or a working URL
GroupResolved ==
    /\ mon.pc = "resolve"
    /\ \E resolved \in BOOLEAN :
         mon' = IF resolved THEN [mon EXCEPT !.pc = "adapter"]
                ELSE NextGroup([mon EXCEPT !.groups_skipped_unreachable_count = @ + 1])

\* new Set(group.orgs.map((org) => org.org_id)) restricted to the preferred organization
BaseOrgIdsPreferredOnly(group) == {group.orgs[1]}

\* new Set(group.orgs.map((org) => org.org_id))
BaseOrgIds(group) == {group.orgs[k] : k \in 1..Len(group.orgs)}

\* runAdapter answered: it threw, or it gave n postings, posting p naming in
\* its text the first nations matched[p]
AdapterAnswered ==
    /\ mon.pc = "adapter"
    /\ LET group == mon.groups[mon.gi]
           ran == [mon EXCEPT !.adapterRuns = @ \cup {mon.gi},
                              !.adapterCalls = Append(@, mon.gi)]
           firstNations == {i \in 1..Len(mon.orgs) : mon.orgs[i].org_type = "first_nation"}
           baseOrgIds == BaseOrgIds(group)
       IN  \/ mon' = NextGroup(ran)
           \/ \E n \in 0..MaxPostings : \E matched \in [1..n -> SUBSET firstNations] :
                mon' = NextGroup([ran EXCEPT
                          !.groups_scraped_count = @ + 1,
                          !.returned = @ \cup {[group |-> mon.gi, posting |-> p] :
                                                 p \in 1..n},
                          !.stored = @ \cup UNION {
                                       {[group |-> mon.gi, posting |-> p, orgId |-> id] :
                                           id \in baseOrgIds \cup matched[p]} :
                                       p \in 1..n}])

MonNext == WeeklyStart \/ GroupResolved \/ AdapterAnswered


(***************************************************************************)
(* syncPostingsToGoogleSheet.  The sheet is the list of the rows below the *)
(* header; a row is its cell A, the state of its cells B:L and the state   *)
(* of its cells M:O.                                                       *)
(***************************************************************************)

\* rows below the header when the call starts
MaxSheetRows == 2

\* rows given to one call
MaxInputRows == 2

PostingIds == {"p1", "p2", "p3"}

\* cell A: its text without surrounding blanks, and whether blanks surround it
MkCellA(text, padded) == [text |-> text, padded |-> padded]

CellsA ==
    {MkCellA(t, b) : t \in {"p1", "p2"}, b \in BOOLEAN} \cup {MkCellA("", FALSE)}

\* written counts the writes this call made to the row
MkSheetRow(a, bl, mo) == [a |-> a, bl |-> bl, mo |-> mo, written |-> 0]

SheetRows == {MkSheetRow(a, "old", mo) : a \in CellsA, mo \in {"user", "blank"}}

\* asString(existing[i]?.[0]).trim()
TrimmedId(row) == row.a.text

\* rowByPostingId.get(postingId): the sheet row number of the last row whose
\* trimmed cell A is the id, 0 when there is none
RowIndexOf(existing, postingId) ==
    LET hits == {i \in 1..Len(existing) :
                    TrimmedId(existing[i]) # "" /\ TrimmedId(existing[i]) = postingId}
    IN  IF hits = {} THEN 0
        ELSE (CHOOSE i \in hits : \A j \in hits : j <= i) + 1

\* the rows of the input with a row in the sheet, as (range row, posting id)
RECURSIVE UpdateDataOf(_, _)
UpdateDataOf(existing, rows) ==
    IF rows = <<>> THEN <<>>
    ELSE LET rowIndex == RowIndexOf(existing, Head(rows))
             rest == UpdateDataOf(existing, Tail(rows))
         IN  IF rowIndex # 0
             THEN <<[rowIndex |-> rowIndex, postingId |-> Head(rows)]>> \o rest
             ELSE rest

\* the rows of the input without a row in the sheet
RECURSIVE AppendRowsOf(_, _)
AppendRowsOf(existing, rows) ==
    IF rows = <<>> THEN <<>>
    ELSE LET rest == AppendRowsOf(existing, Tail(rows))
         IN  IF RowIndexOf(existing, Head(rows)) # 0 THEN rest
             ELSE <<Head(rows)>> \o rest

\* an update of the whole row A:O with rowToValues(row)
WriteRangeAtoO(row, postingId) ==
    [row EXCEPT !.a = MkCellA(postingId, FALSE), !.bl = "new", !.mo = "blank",
                !.written = @ + 1]

\* the update of A{rowIndex}:L{rowIndex} with values.slice(0, 12)
WriteRangeAtoL(row, postingId) ==
    [row EXCEPT !.a = MkCellA(postingId, FALSE), !.bl = "new", !.written = @ + 1]

\* values.batchUpdate: the sheet after the ranges of data were written in turn
RECURSIVE BatchUpdated(_, _)
BatchUpdated(shRows, data) ==
    IF data = <<>> THEN shRows
    ELSE LET i == Head(data).rowIndex - 1
         IN  BatchUpdated([shRows EXCEPT ![i] = WriteRangeAtoL(@, Head(data).postingId)],
                          Tail(data))

\* values.append with INSERT_ROWS: rowToValues(row) below the last row
RECURSIVE Appended(_, _)
Appended(shRows, ids) ==
    IF ids = <<>> THEN shRows
    ELSE Appended(Append(shRows, [a |-> MkCellA(Head(ids), FALSE), bl |-> "new",
                                  mo |-> "blank", written |-> 1]),
                  Tail(ids))

NoSyncResult == [synced |-> FALSE, updatedRows |-> 0, insertedRows |-> 0, reason |-> "none"]

SheetIdle ==
    [pc |-> "idle", secrets |-> FALSE, rows |-> <<>>, before |-> <<>>, sheetRows |-> <<>>,
     updateData |-> <<>>, appendRows |-> <<>>, result |-> NoSyncResult]

\* rows comes from buildSheetRows, one row per posting_id
InputRows ==
    {r \in UNION {[1..n -> PostingIds] : n \in 0..MaxInputRows} :
        \A i, j \in 1..Len(r) : r[i] = r[j] => i = j}

SheetInit ==
    \E secrets \in BOOLEAN : \E rows \in InputRows :
    \E n \in 0..MaxSheetRows : \E shRows \in [1..n -> SheetRows] :
        sheet = [SheetIdle EXCEPT !.pc = "start", !.secrets = secrets, !.rows = rows,
                                  !.before = shRows, !.sheetRows = shRows]

SyncThrown(s) == [s EXCEPT !.pc = "thrown"]

SyncReturned(s) ==
    [s EXCEPT !.pc = "done",
              !.result = [synced |-> TRUE, updatedRows |-> Len(s.updateData),
                          insertedRows |-> Len(s.appendRows), reason |-> "none"]]

\* after batchUpdate, or when there is nothing to update
AfterUpdate(s) == IF s.appendRows # <<>> THEN [s EXCEPT !.pc = "append"] ELSE SyncReturned(s)

\* the tests before the first request
SyncStart ==
    /\ sheet.pc = "start"
    /\ sheet' = IF ~sheet.secrets
                THEN [sheet EXCEPT !.pc = "done",
                                   !.result = [NoSyncResult EXCEPT !.reason = "secrets missing"]]
                ELSE IF Len(sheet.rows) = 0
                THEN [sheet EXCEPT !.pc = "done",
                                   !.result = [NoSyncResult EXCEPT !.synced = TRUE]]
                ELSE [sheet EXCEPT !.pc = "prepare"]

\* getSheetsClient, ensurePostingsTab and ensureHeaderRow returned, or one threw
SheetPrepared ==
    /\ sheet.pc = "prepare"
    /\ \E ok \in BOOLEAN :
         sheet' = IF ok THEN [sheet EXCEPT !.pc = "read"] ELSE SyncThrown(sheet)

\* values.get of A2:O answered, or threw
ExistingAnswered ==
    /\ sheet.pc = "read"
    /\ \E ok \in BOOLEAN :
         sheet' = IF ~ok THEN SyncThrown(sheet)
                  ELSE LET existing == sheet.sheetRows
                           s == [sheet EXCEPT
                                   !.updateData = UpdateDataOf(existing, sheet.rows),
                                   !.appendRows = AppendRowsOf(existing, sheet.rows)]
                       IN  IF s.updateData # <<>> THEN [s EXCEPT !.pc = "update"]
                           ELSE AfterUpdate(s)

\* values.batchUpdate answered, or threw
BatchUpdateAnswered ==
    /\ sheet.pc = "update"
    /\ \E ok \in BOOLEAN :
         sheet' = IF ~ok THEN SyncThrown(sheet)
                  ELSE AfterUpdate([sheet EXCEPT
                          !.sheetRows = BatchUpdated(@, sheet.updateData)])

\* values.append answered, or threw
AppendAnswered ==
    /\ sheet.pc = "append"
    /\ \E ok \in BOOLEAN :
         sheet' = IF ~ok THEN SyncThrown(sheet)
                  ELSE SyncReturned([sheet EXCEPT
                          !.sheetRows = Appended(@, sheet.appendRows)])

SheetNext ==
    SyncStart \/ SheetPrepared \/ ExistingAnswered \/ BatchUpdateAnswered \/ AppendAnswered


(***************************************************************************)
(* PostingsDatabase over a sequence of weekly runs.  The database is       *)
(* loaded from its file when a run starts and written back by save.        *)
(***************************************************************************)

\* weekly runs started
MaxRuns == 3

\* the (posting_id, org_id) pairs
Associations == {"p1", "p2"} \X {"o1", "o2"}

\* no row of postings for the pair
NoRow == [first_seen_run_id |-> 0, last_seen_run_id |-> 0]

\* inserted is the history of the INSERT statements, as (pair, run_id)
EmptyDatabase == [seq |-> 0, postings |-> [a \in Associations |-> NoRow], inserted |-> {}]

DbIdle ==
    [pc |-> "idle", file |-> EmptyDatabase, mem |-> EmptyDatabase, runId |-> 0,
     started |-> 0, digest |-> {}]

\* the INSERT of upsertPostingAssociation
InsertRow(runId) == [first_seen_run_id |-> runId, last_seen_run_id |-> runId]

\* an UPDATE that also sets first_seen_run_id
UpdateRowBothIds(row, runId) == [first_seen_run_id |-> runId, last_seen_run_id |-> runId]

\* the UPDATE of upsertPostingAssociation
UpdateRow(row, runId) == [row EXCEPT !.last_seen_run_id = runId]

upsertPostingAssociation(database, a, runId) ==
    IF database.postings[a] = NoRow
    THEN [database EXCEPT !.postings[a] = InsertRow(runId),
                          !.inserted = @ \cup {<<a, runId>>}]
    ELSE [database EXCEPT !.postings[a] = UpdateRow(@, runId)]

getNewPostingsByAssociation(database, runId) ==
    {a \in Associations : database.postings[a].first_seen_run_id = runId}

\* db.init reads the file, createRun inserts the run with the next run_id
DbRunStart ==
    /\ db.pc = "idle"
    /\ db.started < MaxRuns
    /\ db' = [db EXCEPT !.pc = "early", !.started = @ + 1,
                        !.mem = [db.file EXCEPT !.seq = @ + 1],
                        !.runId = db.file.seq + 1, !.digest = {}]

\* readOrgsCsv answered, or threw before totals was set: nothing is saved
DbOrgsRead ==
    /\ db.pc = "early"
    /\ \E ok \in BOOLEAN :
         db' = IF ok THEN [db EXCEPT !.pc = "run"] ELSE [db EXCEPT !.pc = "idle"]

DbUpsert ==
    /\ db.pc = "run"
    /\ \E a \in Associations :
         db' = [db EXCEPT !.mem = upsertPostingAssociation(@, a, db.runId)]

\* the group loop ended
DbDigest ==
    /\ db.pc = "run"
    /\ db' = [db EXCEPT !.pc = "digested",
                        !.digest = getNewPostingsByAssociation(db.mem, db.runId)]

\* the run ended, by its last statement or by the catch block: finishRun and
\* save, which writes the file or throws
DbRunEnd ==
    /\ db.pc \in {"run", "digested"}
    /\ \E saved \in BOOLEAN :
         db' = [db EXCEPT !.pc = "idle", !.file = IF saved THEN db.mem ELSE @]

DbInit == db = DbIdle

DbNext == DbRunStart \/ DbOrgsRead \/ DbUpsert \/ DbDigest \/ DbRunEnd


(***************************************************************************)
(* Specifications.  Each runs one component from its initial state while   *)
(* the other components stay where construction left them.                 *)
(***************************************************************************)

searchVars == <<SEARCH_CACHE, braveSearchUnavailable, callers>>

limiterVars == <<queueByDomain, promises, tasks, scheduleOrder, startOrder>>

\* Every component outside own is where construction left it.
Idle(own) ==
    /\ IF "cls" \in own THEN TRUE ELSE cls = ClsIdle
    /\ IF "search" \in own THEN TRUE ELSE SearchInit
    /\ IF "disc" \in own THEN TRUE ELSE disc = DiscIdle
    /\ IF "limiter" \in own THEN TRUE ELSE LimiterInit
    /\ IF "req" \in own THEN TRUE ELSE req = ReqIdle
    /\ IF "batch" \in own THEN TRUE ELSE batch = BatchIdle
    /\ IF "res" \in own THEN TRUE ELSE res = ResIdle
    /\ IF "norm" \in own THEN TRUE ELSE norm = NormIdle
    /\ IF "twin" \in own THEN TRUE ELSE twin = TwinIdle
    /\ IF "mon" \in own THEN TRUE ELSE mon = MonIdle
    /\ IF "sheet" \in own THEN TRUE ELSE sheet = SheetIdle
    /\ IF "db" \in own THEN TRUE ELSE db = DbIdle

\* Every component outside own is left alone.
Frame(own) ==
    /\ IF "cls" \in own THEN TRUE ELSE UNCHANGED cls
    /\ IF "search" \in own THEN TRUE ELSE UNCHANGED searchVars
    /\ IF "disc" \in own THEN TRUE ELSE UNCHANGED disc
    /\ IF "limiter" \in own THEN TRUE ELSE UNCHANGED limiterVars
    /\ IF "req" \in own THEN TRUE ELSE UNCHANGED req
    /\ IF "batch" \in own THEN TRUE ELSE UNCHANGED batch
    /\ IF "res" \in own THEN TRUE ELSE UNCHANGED res
    /\ IF "norm" \in own THEN TRUE ELSE UNCHANGED norm
    /\ IF "twin" \in own THEN TRUE ELSE UNCHANGED twin
    /\ IF "mon" \in own THEN TRUE ELSE UNCHANGED mon
    /\ IF "sheet" \in own THEN TRUE ELSE UNCHANGED sheet
    /\ IF "db" \in own THEN TRUE ELSE UNCHANGED db

InitClassify == ClsInit /\ Idle({"cls"})

NextClassify == ClsNext /\ Frame({"cls"})

SpecClassify == InitClassify /\ [][NextClassify]_vars

InitSearch == SearchInit /\ Idle({"search"})

NextSearch == SearchNext /\ Frame({"search"})

SpecSearch == InitSearch /\ [][NextSearch]_vars

InitDiscover == DiscInit /\ Idle({"disc"})

NextDiscover == DiscNext /\ Frame({"disc"})

SpecDiscover == InitDiscover /\ [][NextDiscover]_vars

InitLimiter == LimiterInit /\ Idle({"limiter"})

NextLimiter == LimiterNext /\ Frame({"limiter"})

SpecLimiter == InitLimiter /\ [][NextLimiter]_vars

InitRequest == ReqInit /\ Idle({"req"})

NextRequest == ReqNext /\ Frame({"req"})

SpecRequest == InitRequest /\ [][NextRequest]_vars

InitBatch == BatchInit /\ Idle({"batch"})

NextBatch == BatchNext /\ Frame({"batch"})

SpecBatch == InitBatch /\ [][NextBatch]_vars

InitResolve == ResInit /\ Idle({"res"})
NextResolve == ResNext /\ Frame({"res"})
SpecResolve == InitResolve /\ [][NextResolve]_vars

InitNormalise == NormInit /\ Idle({"norm"})
NextNormalise == NormNext /\ Frame({"norm"})
SpecNormalise == InitNormalise /\ [][NextNormalise]_vars

InitReplay == TwinInit /\ Idle({"disc", "twin"})
NextReplay == TwinNext /\ Frame({"disc", "twin"})
SpecReplay == InitReplay /\ [][NextReplay]_vars

InitMonitor == MonInit /\ Idle({"mon"})
NextMonitor == MonNext /\ Frame({"mon"})
SpecMonitor == InitMonitor /\ [][NextMonitor]_vars

InitSheet == SheetInit /\ Idle({"sheet"})
NextSheet == SheetNext /\ Frame({"sheet"})
SpecSheet == InitSheet /\ [][NextSheet]_vars

InitDatabase == DbInit /\ Idle({"db"})
NextDatabase == DbNext /\ Frame({"db"})
SpecDatabase == InitDatabase /\ [][NextDatabase]_vars

\* The discovery cascade when every awaited call settles: page.goto and
\* waitForLoadState carry timeouts and every fetch has a timeout.
SpecDiscoverFair == SpecDiscover /\ WF_vars(NextDiscover)

\* The limiter when the promise jobs and timers of the runtime run and every
\* task for FairHost settles (performFetch aborts the fetch at its timeout);
\* a task for another host may run for ever, and nothing obliges a caller to
\* call schedule.
FairHost == "town.ca"

LimiterFairness ==
    \A t \in TaskIds :
        /\ WF_vars(ChainSettle(t) /\ Frame({"limiter"}))
        /\ WF_vars(Proceed(t) /\ Frame({"limiter"}))
        /\ WF_vars(Wake(t) /\ Frame({"limiter"}))
        /\ WF_vars(Finish(t) /\ tasks[t].domain = FairHost /\ Frame({"limiter"}))

SpecLimiterFair == SpecLimiter /\ LimiterFairness

(***************************************************************************)
(* Properties.                                                             *)
(***************************************************************************)

\* The entries of ATS_PATTERNS whose signature matches the URL string.
MatchingEntries(u) ==
    { i \in 1..Len(ATS_PATTERNS) : PatternTest(ATS_PATTERNS[i], Tokens(u)) }

PairOf(i) == MkResult(ATS_PATTERNS[i].jobsSourceType, ATS_PATTERNS[i].adapter, 100)

\* C1, as stated: whenever a vendor signature matches the URL string,
\* classifyJobsSource returns that vendor's pair with confidence 1.0, having
\* issued no HTTP request and opened no page.
C1_EveryMatchingVendorReturned ==
    cls.pc = "done" =>
        \A i \in MatchingEntries(cls.jobsUrl) :
            /\ cls.result = Returned(PairOf(i))
            /\ cls.httpRequests = 0
            /\ cls.pagesOpened = 0

\* C1, amended: when at least one vendor signature matches the URL string,
\* classifyJobsSource returns the pair of the first matching entry in table
\* order with confidence 1.0, having issued no HTTP request and opened no page.
C1_FirstMatchingVendorReturned ==
    (cls.pc = "done" /\ MatchingEntries(cls.jobsUrl) # {}) =>
        LET first == CHOOSE i \in MatchingEntries(cls.jobsUrl) :
                        \A j \in MatchingEntries(cls.jobsUrl) : i <= j
        IN  /\ cls.result = Returned(PairOf(first))
            /\ cls.httpRequests = 0
            /\ cls.pagesOpened = 0

\* A classified URL that carries the signatures of two vendors.
C1_TwoSignaturesClassified ==
    /\ cls.pc = "done"
    /\ Cardinality(MatchingEntries(cls.jobsUrl)) >= 2
    /\ cls.result.kind = "return"
    /\ cls.result.value.confidence = 100

\* C2: once braveSearchUnavailable is true it stays true, and no caller enters
\* the wait for the search engine any more: every step taken with the breaker
\* set leaves it set and issues no search request.
C2_BreakerMonotonicNoRequests ==
    [][ braveSearchUnavailable =>
          /\ braveSearchUnavailable'
          /\ \A p \in Callers :
                callers'[p].pc = "awaitSearch" => callers[p].pc = "awaitSearch" ]_vars

\* A search made with the breaker set has returned without a request.
C2_SearchedAfterTrip ==
    /\ braveSearchUnavailable
    /\ \E p \in Callers :
          /\ callers[p].pc = "loop"
          /\ callers[p].searched
          /\ callers[p].entryTripped
          /\ callers[p].entryCached = NoEntry
          /\ callers[p].got = <<>>

\* C3, as stated: a search entered with the breaker set, for a query that has
\* a cache entry, returns the cached list.
C3_CachedListServedAfterTrip ==
    \A p \in Callers :
        (callers[p].searched /\ callers[p].entryTripped
            /\ callers[p].entryCached # NoEntry)
        => callers[p].got = callers[p].entryCached

\* C3, amended: a search entered with the breaker set returns the empty list,
\* whether or not the query has a cache entry; the cache entry itself is kept.
C3_EmptyListAfterTrip ==
    \A p \in Callers :
        (callers[p].searched /\ callers[p].entryTripped)
        => /\ callers[p].got = <<>>
           /\ (callers[p].entryCached # NoEntry => callers[p].key \in DOMAIN SEARCH_CACHE)

\* A search entered with the breaker set for a query cached with candidates.
C3_CachedQuerySearchedAfterTrip ==
    \E p \in Callers :
        /\ callers[p].searched
        /\ callers[p].entryTripped
        /\ callers[p].entryCached # NoEntry
        /\ callers[p].entryCached # <<>>


\* C4, as stated: in every call of discoverJobsUrl in which the final URL of
\* a path-probe response is a known ATS URL, the call returns that URL with
\* path_guess, no further path is probed, and the link-text crawl, the browser
\* crawl and the sitemap scan were never invoked.
C4_ProbeHitSkipsEveryOtherStrategy ==
    (disc.pc = "done" /\ disc.hit) =>
        /\ disc.result = MkDiscovery(disc.hitUrl, "path_guess", "")
        /\ disc.probes = disc.probesAtHit
        /\ disc.linkFetches = 0
        /\ disc.pagesOpened = 0
        /\ disc.sitemapFetches = 0

\* C4, amended: when the cleaned final URL of a path-probe response is a known
\* ATS URL, the call returns that cleaned URL with path_guess, no further path
\* is probed, no page is opened and /sitemap.xml is not fetched; the link-text
\* crawl has not run in the full cascade, and has already run in fast mode.
C4_ProbeHitReturnsAtOnce ==
    (disc.pc = "done" /\ disc.hit) =>
        /\ disc.result = MkDiscovery(disc.hitUrl, "path_guess", "")
        /\ isKnownAtsUrl(disc.hitUrl)
        /\ disc.probes = disc.probesAtHit
        /\ disc.pagesOpened = 0
        /\ disc.sitemapFetches = 0
        /\ (~disc.fast => disc.linkFetches = 0 /\ disc.ran = {"path"})
        /\ (disc.fast => disc.linkFetches >= 1 /\ disc.ran = {"link", "path"})

\* A full cascade with a browser whose second probe was redirected to an ATS.
C4_SecondProbeHit ==
    /\ disc.pc = "done"
    /\ disc.hit
    /\ ~disc.fast
    /\ disc.browser
    /\ disc.probesAtHit = 2
    /\ disc.result.discoveredVia = "path_guess"

\* C5, as stated: classifyJobsSource never throws; whatever the fetcher and
\* the renderer do, the call ends with a returned ClassificationResult.
C5_ClassifyNeverThrows ==
    cls.pc = "done" => cls.result.kind = "return"

\* A classification ended by a rejection of browser.newPage or page.close.
C5_ThrownByPageLifecycle ==
    /\ cls.pc = "done"
    /\ cls.result = Thrown
    /\ cls.failures \cap {"newPage", "close"} # {}

\* C6, as stated: discoverJobsUrl never raises; whatever the fetcher and the
\* renderer do, the call ends with a returned result, which is either a jobs
\* URL or the explicit empty result (manual, with a note).
C6_DiscoverNeverRaises ==
    disc.pc = "done" =>
        /\ disc.result.kind = "return"
        /\ (disc.result.jobsUrl = EmptyUrl =>
                disc.result.discoveredVia = "manual" /\ disc.result.notes # "")

\* A discovery ended by a rejection of browser.newPage or page.close.
C6_RaisedByPageLifecycle ==
    /\ disc.pc = "done"
    /\ disc.result = DiscoveryThrown
    /\ disc.failures \cap {"newPage", "close"} # {}

NoStrategyCandidate ==
    /\ disc.pathCandidate = NoCandidate
    /\ disc.linkCandidate = NoCandidate
    /\ disc.browserCandidate = NoCandidate
    /\ disc.sitemapCandidate = NoCandidate

\* C7: a call that returns with an empty homepage URL, or after no strategy
\* produced a candidate, returns jobsUrl '' with manual and a non-empty note;
\* and every returned result with a non-empty jobsUrl has a discoveredVia
\* other than manual.
C7_ExplicitEmptyResult ==
    (disc.pc = "done" /\ disc.result.kind = "return") =>
        /\ (disc.homepageUrl = EmptyUrl \/ NoStrategyCandidate) =>
              /\ disc.result.jobsUrl = EmptyUrl
              /\ disc.result.discoveredVia = "manual"
              /\ disc.result.notes # ""
        /\ disc.result.jobsUrl # EmptyUrl => disc.result.discoveredVia # "manual"

\* The full cascade, browser included, ran to its end and found nothing.
C7_CascadeExhausted ==
    /\ disc.pc = "done"
    /\ disc.homepageUrl = HomepageUrl
    /\ disc.ran = {"path", "link", "browser", "sitemap"}
    /\ disc.sitemapFetches = 1
    /\ NoStrategyCandidate
    /\ disc.result = MkDiscovery(EmptyUrl, "manual",
                                 "No reliable jobs URL discovered automatically.")

IsPrefix(a, b) == Len(a) <= Len(b) /\ a = SubSeq(b, 1, Len(a))

TasksOf(d) == { t \in TaskIds : tasks[t].domain = d }

\* A limiter step is possible for task t: it runs, sleeps, may proceed, or
\* its chain may settle.
CanStep(t) ==
    \/ tasks[t].pc \in {"running", "sleep"}
    \/ tasks[t].pc = "awaitPrevious" /\ promises[tasks[t].previous]
    \/ tasks[t].pc = "done" /\ ~promises[t] /\ promises[tasks[t].previous]

\* C9: for each hostname at most one task is executing; tasks start in the
\* order schedule was called; and a scheduled task is never dropped: while a
\* task of the hostname has not finished, a step of the hostname's queue is
\* possible, and a finished task ended with its own return or throw.
C9_OneAtATimeInScheduleOrder ==
    \A d \in Domains :
        /\ Cardinality({ t \in TasksOf(d) : tasks[t].pc = "running" }) <= 1
        /\ IsPrefix(startOrder[d], scheduleOrder[d])
        /\ TasksOf(d) = { scheduleOrder[d][i] : i \in 1..Len(scheduleOrder[d]) }
        /\ (\E t \in TasksOf(d) : tasks[t].pc # "done") => \E t \in TasksOf(d) : CanStep(t)
        /\ \A t \in TasksOf(d) :
              (tasks[t].pc = "done") <=> (tasks[t].outcome \in {"returned", "threw"})

\* One hostname with a finished task, an executing one and a queued one.
C9_QueuedBehindRunning ==
    \E d \in Domains :
        /\ Len(scheduleOrder[d]) >= 3
        /\ tasks[scheduleOrder[d][1]].pc = "done"
        /\ tasks[scheduleOrder[d][2]].pc = "running"
        /\ tasks[scheduleOrder[d][3]].pc = "awaitPrevious"

RetryableOutcome(o) == o = 0 \/ o = 408 \/ o = 429 \/ (o >= 500 /\ o <= 599)

\* C10: request makes at most retries + 1 attempts; every attempt but the
\* last ended with 408, 429, 5xx or a thrown error; request returns the
\* response of the last attempt whatever its status, and throws exactly when
\* the last attempt threw; requestMaybe gives null exactly when request throws
\* and the response of request otherwise.
C10_RetryContract ==
    req.pc = "done" =>
        LET n == Len(req.log) IN
        /\ n >= 1
        /\ n <= req.retries + 1
        /\ \A i \in 1..(n - 1) : RetryableOutcome(req.log[i])
        /\ (req.request.kind = "throw") <=> (req.log[n] = 0)
        /\ req.request.kind = "return" => req.request.status = req.log[n]
        /\ (req.maybe.kind = "null") <=> (req.request.kind = "throw")
        /\ req.maybe.kind # "null" => req.maybe = req.request

\* Every allowed attempt was made and the last one's retryable status is
\* what request and requestMaybe return.
C10_RetryableStatusReturned ==
    /\ req.pc = "done"
    /\ req.retries >= 1
    /\ Len(req.log) = req.retries + 1
    /\ req.log[1] = 0
    /\ req.log[Len(req.log)] = 429
    /\ req.request = [kind |-> "return", status |-> 429]
    /\ req.maybe = req.request

ManualRecord(r) ==
    /\ r.jobs_url = EmptyUrl
    /\ r.jobs_source_type = "manual_review"
    /\ r.adapter = "manual"
    /\ r.confidence = 0
    /\ r.discovered_via = "manual"

\* C11, as stated: processOrg never rejects, and whenever discovery, research
\* or classification threw, the record returned is the manual-review record
\* with an empty jobs_url; mapWithConcurrency never rejects.
C11_AnyExceptionGivesManualRecord ==
    /\ batch.outcome # "rejected"
    /\ \A i \in 1..Len(batch.orgs) :
          batch.orgs[i].pc = "done" =>
              /\ batch.orgs[i].outcome = "return"
              /\ batch.orgs[i].threw => ManualRecord(batch.orgs[i].record)

\* C11, amended: processOrg never rejects; an exception that reaches its
\* outer catch gives the manual-review record with an empty jobs_url, while an
\* exception of a browser-assisted discovery or classification call is first
\* answered by a call without the browser whose result is used; and
\* mapWithConcurrency returns the record of every organization.
C11_OuterCatchGivesManualRecord ==
    /\ batch.outcome # "rejected"
    /\ \A i \in 1..Len(batch.orgs) :
          batch.orgs[i].pc = "done" =>
              /\ batch.orgs[i].outcome = "return"
              /\ batch.orgs[i].record # NoRecord
              /\ batch.orgs[i].failed => ManualRecord(batch.orgs[i].record)
              /\ batch.orgs[i].failed => batch.orgs[i].threw
              /\ (batch.orgs[i].threw /\ ~batch.orgs[i].failed) => batch.classifyWithBrowser
    /\ batch.outcome = "returned" =>
          /\ Len(batch.results) = Len(batch.seeds)
          /\ \A i \in 1..Len(batch.seeds) :
                batch.results[i] = batch.orgs[i].record /\ batch.results[i] # NoRecord

\* A batch returned in which one organization ended in the outer catch and
\* another, after a browser-assisted call threw, got a classified jobs URL.
C11_FailureBesideRetriedSuccess ==
    /\ batch.outcome = "returned"
    /\ \E i, j \in 1..Len(batch.orgs) :
          /\ batch.orgs[i].failed
          /\ ManualRecord(batch.results[i])
          /\ batch.orgs[j].threw
          /\ ~batch.orgs[j].failed
          /\ batch.results[j].jobs_url # EmptyUrl
          /\ batch.results[j].jobs_source_type = "ats_icims"

\* C12: when every word of the organization name is shorter than three
\* characters or a stop word, so that no name token is left,
\* resolveHomepageViaSearch and resolveJobsViaSearch return null and issue no
\* knowledge-graph request, no search request and score no candidate.
C12_NoTokensNoRequests ==
    (/\ res.pc # "idle"
     /\ \A k \in 1..Len(res.orgName) :
           WordLength(res.orgName[k]) < 3 \/ res.orgName[k] \in NAME_STOP_WORDS)
    => /\ res.pc = "done"
       /\ res.result.source = "null"
       /\ res.kgRequests = 0
       /\ res.searchRequests = 0
       /\ res.candidatesScored = 0

\* resolveJobsViaSearch was called with a homepage and a name made of a stop
\* word, a short stop word and a two-letter word, and returned null.
C12_ShortAndStopWordsOnly ==
    /\ res.pc = "done"
    /\ res.fn = "jobs"
    /\ res.hasHomepage
    /\ res.orgName = <<"town", "of", "st">>
    /\ res.result.source = "null"

\* C13: for a first_nation organization whose knowledge-graph candidate has a
\* total score of at least 5, resolveHomepageViaSearch returns that candidate
\* and issues no search-engine request; for a municipality it issues no
\* knowledge-graph request at all.
C13_WikidataFirstForFirstNations ==
    /\ (res.fn = "homepage" /\ res.orgType = "first_nation" /\ res.kgBest >= 5)
          => /\ res.searchRequests = 0
             /\ res.pc = "done" => res.result = [source |-> "wikidata", score |-> res.kgBest]
    /\ res.orgType = "municipality" => res.kgRequests = 0 /\ res.kgBest = NoScore

\* A first_nation homepage was taken from a knowledge-graph candidate that
\* scored exactly 5 after both knowledge-graph queries were answered.
C13_WikidataCandidateAtThreshold ==
    /\ res.pc = "done"
    /\ res.fn = "homepage"
    /\ res.orgType = "first_nation"
    /\ res.kgBest = 5
    /\ res.kgRequests >= 3
    /\ res.result.source = "wikidata"

Agree(answer) == answer.applied => answer.url = answer.stripped

\* C14, as stated: a URL and the same URL without its utm_*, gclid and fbclid
\* parameters, fragment and trailing slash on a non-root path map to the same
\* string under cleanUrl, under normalizeJobsUrlKey and under sanitizeUrl.
C14_AllThreeIgnoreTracking ==
    /\ Agree(norm.cleanUrl)
    /\ Agree(norm.normalizeJobsUrlKey)
    /\ Agree(norm.sanitizeUrl)

\* every utm_* key of the URL is one of the five that cleanUrl lists
ListedUtmOnly ==
    \A k \in 1..Len(norm.url.params) :
        LowerKey(norm.url.params[k].key) \in {"utm_source", "utm_medium", "utm_id"}
            => LowerKey(norm.url.params[k].key) \in
                  {"utm_source", "utm_medium", "utm_campaign", "utm_term", "utm_content"}

\* the query is written the way URLSearchParams writes it
QueryInFormEncoding ==
    \A k \in 1..Len(norm.url.params) : norm.url.params[k].form # "pct"

\* C14, amended: for a URL whose query is written as URLSearchParams writes
\* it, the URL and the same URL without its utm_*, gclid and fbclid
\* parameters, fragment and trailing slash on a non-root path map to the same
\* string under normalizeJobsUrlKey and under sanitizeUrl; under cleanUrl they
\* do when every utm_* key is utm_source, utm_medium, utm_campaign, utm_term
\* or utm_content.
C14_ListedTrackingIgnored ==
    norm.pc = "given" =>
       /\ (QueryInFormEncoding /\ ListedUtmOnly) => Agree(norm.cleanUrl)
       /\ QueryInFormEncoding => Agree(norm.normalizeJobsUrlKey)
       /\ QueryInFormEncoding => Agree(norm.sanitizeUrl)

\* The three normalisers were applied to /jobs/ with an upper-case
\* UTM_MEDIUM, a gclid and a fragment, and each gave the string it gives for
\* /jobs.
C14_TrackedUrlNormalised ==
    /\ norm.pc = "given"
    /\ norm.url = [segs |-> <<"jobs">>, slash |-> TRUE, hash |-> TRUE,
                   params |-> <<[key |-> "UTM_MEDIUM", form |-> "plain"],
                                [key |-> "gclid", form |-> "plain"]>>]
    /\ norm.cleanUrl.applied
    /\ norm.normalizeJobsUrlKey.applied
    /\ norm.sanitizeUrl.applied
    /\ norm.cleanUrl.url = [segs |-> <<"jobs">>, slash |-> FALSE, hash |-> FALSE, params |-> <<>>]
    /\ norm.sanitizeUrl.url = norm.cleanUrl.url
    /\ norm.normalizeJobsUrlKey.url = norm.cleanUrl.url

TenResults ==
    { MkResult("ats_workday", "workday", 100), MkResult("ats_taleo", "taleo", 100),
      MkResult("ats_icims", "icims", 100), MkResult("ats_neogov", "neogov", 100),
      MkResult("ats_dayforce", "dayforce", 100), MkResult("ats_bamboohr", "bamboohr", 100),
      MkResult("ats_paycom", "paycom", 100),
      MkResult("pdf", "pdf", 50),
      MkResult("html_list", "html_list", 80),
      MkResult("unknown", "generic_dom", 50) }

\* C17: every result classifyJobsSource returns is one of ten values: a
\* vendor with its own adapter at confidence 1.0, (pdf, pdf, 0.5),
\* (html_list, html_list, 0.8) or (unknown, generic_dom, 0.5); manual_review
\* is never returned.
C17_OneOfTenResults ==
    /\ cls.result.kind = "return" => cls.result.value \in TenResults
    /\ cls.pending # NoResult => cls.pending \in TenResults

\* The default result was returned after a fetch that failed and a rendered
\* page that decided nothing.
C17_DefaultAfterFetchAndRender ==
    /\ cls.pc = "done"
    /\ ~cls.fetched
    /\ cls.rendered
    /\ cls.result = Returned(MkResult("unknown", "generic_dom", 50))

HtmlListThresholds(body) ==
    \/ body.relevantLinks >= 3
    \/ body.relevantLinks >= 2 /\ body.keywordHits >= 3
    \/ body.postingMarkers >= 3

\* the fetched page matches no vendor pattern or content marker and is no PDF
PlainFetchedPage ==
    /\ cls.fetched
    /\ classifyFromString(Tokens(cls.response.url)) = NoResult
    /\ classifyFromContentMarkers(Tokens(cls.response.url) \o <<"\n">>
                                  \o cls.response.body.text) = NoResult
    /\ ~looksLikePdf(cls.response.url)
    /\ ~cls.response.contentTypePdf

OneRelevantAnchorOnly ==
    /\ cls.response.body.relevantLinks = 1
    /\ cls.response.body.keywordHits < 3
    /\ cls.response.body.postingMarkers = 0

\* C18, as stated: a fetched page with no vendor match that is no PDF is
\* classified html_list only if it has 3 job-relevant anchors, or 2 and 3
\* distinct job keywords, or 3 strong posting markers; with exactly 1
\* job-relevant anchor and no other signal it is classified
\* (unknown, generic_dom, 0.5).
C18_HtmlListOnlyByPageThresholds ==
    (cls.pc = "done" /\ PlainFetchedPage /\ cls.result.kind = "return") =>
        /\ cls.result.value.jobsSourceType = "html_list"
              => HtmlListThresholds(cls.response.body)
        /\ OneRelevantAnchorOnly => cls.result.value = GenericUnknown

\* C18, amended: the same holds of the fetched page whenever no page is
\* rendered in a browser, which is whenever no browser is supplied or the
\* fetched page passes the list test or the generic careers test; otherwise
\* the rendered page decides, and the result is html_list only if 3 or more
\* captured request URLs look job related or the rendered HTML meets the
\* same thresholds.
C18_HtmlListByFetchedPageUnlessRendered ==
    (cls.pc = "done" /\ PlainFetchedPage /\ cls.result.kind = "return") =>
        /\ (cls.result.value.jobsSourceType = "html_list" /\ ~cls.rendered)
              => HtmlListThresholds(cls.response.body) /\ cls.response.body.anchors > 0
        /\ (cls.result.value.jobsSourceType = "html_list" /\ cls.rendered)
              => \/ cls.networkHints >= 3
                 \/ HtmlListThresholds(cls.html) /\ cls.html.anchors > 0
        /\ (OneRelevantAnchorOnly /\ ~cls.rendered) => cls.result.value = GenericUnknown
        /\ (OneRelevantAnchorOnly /\ cls.rendered /\ cls.html = cls.response.body
               /\ cls.networkHints < 3 /\ cls.response.body.text = <<>>)
              => cls.result.value \in TenResults \ {MkResult("html_list", "html_list", 80),
                                                     MkResult("pdf", "pdf", 50)}
        /\ cls.rendered => /\ cls.browser
                           /\ ~looksLikeHtmlList(cls.response.body)
                           /\ ~looksGenericCareersPage(cls.response.body)

\* A page fetched with one job-relevant anchor and a single career keyword
\* was classified (unknown, generic_dom, 0.5) without a browser.
C18_OneAnchorPageUnknown ==
    /\ cls.pc = "done"
    /\ PlainFetchedPage
    /\ OneRelevantAnchorOnly
    /\ cls.response.body.careerKeywords = 1
    /\ ~cls.browser
    /\ cls.result = Returned(GenericUnknown)

\* a probe answer with status 200 whose final URL is no ATS URL and no PDF
PlainProbeAnswer(response) ==
    /\ response.ok
    /\ response.status = 200
    /\ ~isKnownAtsUrl(cleanUrl(response.url))
    /\ ~looksLikePdf(cleanUrl(response.url))
    /\ ~response.contentTypePdf

\* C19: in the path probe, an answer with status 200 whose final URL is no
\* ATS URL and no PDF and whose body holds at least 2 distinct career
\* keywords is accepted with score 80 and discoveredVia = path_guess, and no
\* further path is probed; with fewer than 2 keywords it is not accepted.
C19_TwoKeywordsAcceptProbe ==
    [][ disc.pc = "probe" =>
          \A response \in ProbeAnswers(DiscPaths(disc)[disc.pathIdx]) :
             (disc' = ProbeAnsweredStep(disc, response) /\ PlainProbeAnswer(response)) =>
                IF keywordCount(response.body) >= 2
                THEN /\ disc'.pc = "done"
                     /\ disc'.pathCandidate =
                           MkCandidate(cleanUrl(response.url), 80, "path_guess", FALSE)
                     /\ disc'.result =
                           MkDiscovery(cleanUrl(response.url), "path_guess", "")
                     /\ disc'.probes = disc.probes
                ELSE /\ disc'.pathCandidate.score # 80
                     /\ disc'.result.discoveredVia # "path_guess"
      ]_vars

\* The second probed path of a full-mode call was accepted on its keywords
\* and returned as the jobs URL, with no third probe.
C19_AcceptedOnSecondPath ==
    /\ disc.pc = "done"
    /\ ~disc.fast
    /\ disc.pathIdx = 2
    /\ disc.probes = 2
    /\ disc.pathCandidate.score = 80
    /\ ~disc.pathCandidate.isPdf
    /\ disc.result.discoveredVia = "path_guess"
    /\ disc.result.jobsUrl = disc.pathCandidate.url

\* the four conditions of the README, on a row of data/orgs.csv
MeetsAllFour(org) ==
    /\ org.hasJobsUrl
    /\ ~(org.confidence < 50)
    /\ org.jobs_source_type # "manual_review"
    /\ org.adapter # "manual"

GroupOrgs(g) == {mon.groups[g].orgs[k] : k \in 1..Len(mon.groups[g].orgs)}

\* C20: an organization is eligible exactly when jobs_url is non-empty,
\* confidence >= 0.5, jobs_source_type is not manual_review and adapter is not
\* manual; no jobs-URL group holds an ineligible organization, so no adapter
\* runs and no posting is stored for such a group; and skipped + eligible =
\* total organizations.
C20_OnlyEligibleOrgsMonitored ==
    mon.pc \notin {"idle", "start"} =>
       /\ \A i \in 1..Len(mon.orgs) :
             (\E k \in 1..Len(mon.eligible) : mon.eligible[k] = i) <=> MeetsAllFour(mon.orgs[i])
       /\ \A g \in 1..Len(mon.groups) :
             /\ GroupOrgs(g) # {}
             /\ \A i \in GroupOrgs(g) :
                   /\ MeetsAllFour(mon.orgs[i])
                   /\ normalizeJobsUrlKey(mon.orgs[i].jobs_url) = mon.groups[g].key
       /\ mon.adapterRuns \subseteq 1..Len(mon.groups)
       /\ \A s \in mon.stored : s.group \in mon.adapterRuns
       /\ mon.orgs_skipped_low_confidence_count + mon.eligible_orgs_count
             = mon.total_orgs_in_csv
       /\ mon.total_orgs_in_csv = Len(mon.orgs)
       /\ mon.eligible_orgs_count = Len(mon.eligible)

\* A run ended with one organization skipped and one scraped, and a posting
\* of the scraped group stored.
C20_OneSkippedOneScraped ==
    /\ mon.pc = "done"
    /\ Len(mon.orgs) = 2
    /\ mon.orgs_skipped_low_confidence_count = 1
    /\ mon.eligible_orgs_count = 1
    /\ mon.orgs[1].adapter = "manual"
    /\ mon.orgs[1].confidence = 50
    /\ mon.adapterRuns = {1}
    /\ \E s \in mon.stored : s.orgId = 2

\* ---- C21 ----
EligibleWithKey(key) ==
    {i \in 1..Len(mon.orgs) :
        MeetsAllFour(mon.orgs[i]) /\ normalizeJobsUrlKey(mon.orgs[i].jobs_url) = key}

EligibleKeys ==
    {normalizeJobsUrlKey(mon.orgs[i].jobs_url) :
        i \in {j \in 1..Len(mon.orgs) : MeetsAllFour(mon.orgs[j])}}

GroupsWithKey(key) == {g \in 1..Len(mon.groups) : mon.groups[g].key = key}

StoredOrgs(g, p) == {s.orgId : s \in {t \in mon.stored : t.group = g /\ t.posting = p}}

\* C21: in one weekly run the eligible organizations with the same normalized
\* jobs_url are together in one group (exactly one group per key when no
\* group limit is set, at most one otherwise), the adapter is run at most once
\* per group, and every posting returned for a group is upserted for every
\* organization of the group and otherwise only for first nations.
C21_OneGroupOneRunAllOrgs ==
    mon.pc \notin {"idle", "start"} =>
       /\ \A key \in EligibleKeys :
             /\ Cardinality(GroupsWithKey(key)) <= 1
             /\ mon.maxGroups = 0 => Cardinality(GroupsWithKey(key)) = 1
             /\ \A g \in GroupsWithKey(key) :
                   /\ GroupOrgs(g) = EligibleWithKey(key)
                   /\ Len(mon.groups[g].orgs) = Cardinality(EligibleWithKey(key))
       /\ \A g \in 1..Len(mon.groups) : mon.groups[g].key \in EligibleKeys
       /\ \A a, b \in 1..Len(mon.adapterCalls) :
             mon.adapterCalls[a] = mon.adapterCalls[b] => a = b
       /\ \A r \in mon.returned :
             /\ r.group \in mon.adapterRuns
             /\ GroupOrgs(r.group) \subseteq StoredOrgs(r.group, r.posting)
             /\ \A id \in StoredOrgs(r.group, r.posting) \ GroupOrgs(r.group) :
                   mon.orgs[id].org_type = "first_nation"
       /\ \A s \in mon.stored : [group |-> s.group, posting |-> s.posting] \in mon.returned

\* A run ended in which two eligible organizations whose raw jobs URLs differ
\* only by a trailing slash shared one group, the adapter ran once and its two
\* postings were stored for both.
C21_SharedBoardStoredForBoth ==
    /\ mon.pc = "done"
    /\ Len(mon.orgs) = 2
    /\ mon.orgs[1].jobs_url # mon.orgs[2].jobs_url
    /\ Len(mon.groups) = 1
    /\ mon.groups[1].orgs = <<1, 2>>
    /\ mon.adapterCalls = <<1>>
    /\ Cardinality(mon.returned) = 2
    /\ \A p \in 1..2 : StoredOrgs(1, p) = {1, 2}

\* ---- C22 ----
InputIds == {sheet.rows[i] : i \in 1..Len(sheet.rows)}

\* the rows of the sheet this call wrote with the values of posting id
RowsWrittenFor(id) ==
    {i \in 1..Len(sheet.sheetRows) :
        sheet.sheetRows[i].written > 0 /\ sheet.sheetRows[i].a = MkCellA(id, FALSE)}

PresentBefore(id) == \E i \in 1..Len(sheet.before) : TrimmedId(sheet.before[i]) = id

\* C22: syncPostingsToGoogleSheet leaves M:O of every row that was in the
\* sheet as it was; a row it updates is a row whose posting_id is an input
\* posting_id and gets only A:L rewritten; a posting_id not in the sheet is
\* appended as one new row with blank M:O; no row is written twice and no
\* input posting is written to two rows; a call that returns synced has
\* written every input posting exactly once.
C22_UserColumnsKept ==
    /\ Len(sheet.sheetRows) >= Len(sheet.before)
    /\ \A i \in 1..Len(sheet.before) :
          LET old == sheet.before[i]
              new == sheet.sheetRows[i]
          IN  /\ new.mo = old.mo
              /\ new.written <= 1
              /\ new.written = 0 => new = old
              /\ new.written = 1 =>
                    /\ TrimmedId(old) \in InputIds
                    /\ new.a = MkCellA(TrimmedId(old), FALSE)
                    /\ new.bl = "new"
    /\ \A i \in (Len(sheet.before) + 1)..Len(sheet.sheetRows) :
          LET new == sheet.sheetRows[i]
          IN  /\ new.mo = "blank"
              /\ new.written = 1
              /\ new.a.text \in InputIds
              /\ ~PresentBefore(new.a.text)
    /\ \A id \in InputIds : Cardinality(RowsWrittenFor(id)) <= 1
    /\ (sheet.pc = "done" /\ sheet.result.synced) =>
          /\ \A id \in InputIds : Cardinality(RowsWrittenFor(id)) = 1
          /\ sheet.result.updatedRows + sheet.result.insertedRows = Len(sheet.rows)

\* A call returned after it updated a row the user had annotated, whose cell A
\* held the id between blanks, and appended a row for an id the sheet lacked.
C22_UpdatedOneAppendedOne ==
    /\ sheet.pc = "done"
    /\ sheet.result = [synced |-> TRUE, updatedRows |-> 1, insertedRows |-> 1, reason |-> "none"]
    /\ Len(sheet.before) = 2 /\ Len(sheet.sheetRows) = 3
    /\ sheet.before[2] = MkSheetRow(MkCellA("p1", TRUE), "old", "user")
    /\ TrimmedId(sheet.before[1]) = "p1"
    /\ sheet.sheetRows[1] = sheet.before[1]
    /\ sheet.sheetRows[2] = [a |-> MkCellA("p1", FALSE), bl |-> "new", mo |-> "user", written |-> 1]
    /\ sheet.sheetRows[3].a.text = "p3"

\* ---- C23 ----
RowsSound(database) ==
    /\ \A a \in Associations :
          LET row == database.postings[a]
          IN  row # NoRow =>
                 /\ 1 <= row.first_seen_run_id
                 /\ row.first_seen_run_id <= row.last_seen_run_id
                 /\ row.last_seen_run_id <= database.seq
    /\ \A r \in 1..MaxRuns :
          getNewPostingsByAssociation(database, r)
             = {a \in Associations : <<a, r>> \in database.inserted}

\* a step of one run keeps first_seen_run_id of every row there was, and a row
\* it inserts or updates has last_seen_run_id = the run's id
UpsertStep ==
    (db.pc = "run" /\ db'.pc = "run") =>
       \A a \in Associations :
          /\ db.mem.postings[a] # NoRow =>
                db'.mem.postings[a].first_seen_run_id = db.mem.postings[a].first_seen_run_id
          /\ db'.mem.postings[a] # db.mem.postings[a] =>
                db'.mem.postings[a].last_seen_run_id = db.runId

\* C23: across weekly runs upsertPostingAssociation keeps first_seen_run_id
\* of an existing row and sets last_seen_run_id to the current run, every row
\* has first_seen_run_id <= last_seen_run_id, and the digest of run r is
\* exactly the set of associations whose INSERT happened in run r.
C23_FirstSeenKeptDigestIsNew ==
    /\ [](RowsSound(db.mem) /\ RowsSound(db.file)
          /\ (db.pc = "digested" =>
                db.digest = {a \in Associations : <<a, db.runId>> \in db.mem.inserted}))
    /\ [][UpsertStep]_vars

\* In a third run an association first seen in run 1 was seen again while
\* another one was new, and the digest held only the new one.
C23_OldSeenAgainNewInDigest ==
    /\ db.pc = "digested"
    /\ db.runId = 3
    /\ db.mem.postings[<<"p1", "o1">>] = [first_seen_run_id |-> 1, last_seen_run_id |-> 3]
    /\ db.mem.postings[<<"p2", "o1">>] = [first_seen_run_id |-> 3, last_seen_run_id |-> 3]
    /\ db.digest = {<<"p2", "o1">>}

\* ---- C24 ----
\* what each step of the fixed order gives for the fetched response, NoResult
\* where the step does not match
FetchSteps ==
    LET r == cls.response IN
    << classifyFromString(Tokens(r.url)),
       classifyFromContentMarkers(Tokens(r.url) \o <<"\n">> \o r.body.text),
       IF looksLikePdf(r.url) \/ r.contentTypePdf THEN MkResult("pdf", "pdf", 50) ELSE NoResult,
       IF looksLikeHtmlList(r.body) THEN MkResult("html_list", "html_list", 80) ELSE NoResult,
       IF looksGenericCareersPage(r.body) THEN MkResult("unknown", "generic_dom", 50)
       ELSE NoResult >>

MatchingSteps == {k \in 1..5 : FetchSteps[k] # NoResult}

\* C24: for a URL without a vendor signature whose fetch gave a response,
\* classifyJobsSource returns what the first matching step gives, in the
\* order signature on the final URL, content marker, PDF, html_list shape,
\* generic careers page, without opening a browser page; a page is opened
\* only when no step matched.
C24_FirstMatchingFetchStepWins ==
    (cls.fetched /\ ClsDirect(cls.jobsUrl) = NoResult) =>
       /\ MatchingSteps # {} =>
             /\ cls.pc = "done"
             /\ cls.pagesOpened = 0
             /\ \E k \in MatchingSteps :
                   /\ \A j \in MatchingSteps : k <= j
                   /\ cls.result = Returned(FetchSteps[k])
       /\ (cls.pagesOpened > 0 \/ cls.pc \in {"newPage", "goto", "close"}) =>
             MatchingSteps = {}

\* A response declared as PDF whose body also has the html_list shape and the
\* career keywords was classified as pdf, with a browser at hand.
C24_PdfBeforeListAndGeneric ==
    /\ cls.pc = "done"
    /\ cls.fetched
    /\ cls.browser
    /\ ClsDirect(cls.jobsUrl) = NoResult
    /\ MatchingSteps = {3, 4, 5}
    /\ cls.result = Returned(MkResult("pdf", "pdf", 50))
    /\ cls.pagesOpened = 0

\* ---- C25 ----
Strategies == <<"path", "link", "browser", "sitemap">>

\* the requests a strategy has issued; for the browser crawl, opening the
\* page counts
StrategyBegun(s) ==
    CASE s = "path"    -> disc.probes > 0
      [] s = "link"    -> disc.linkFetches > 0
      [] s = "browser" -> disc.pagesOpened > 0
                          \/ disc.pc \in {"browserNewPage", "browserGoto", "browserClose"}
                          \/ "newPage" \in disc.failures
      [] s = "sitemap" -> disc.sitemapFetches > 0

StrategyCandidate(s) ==
    CASE s = "path"    -> disc.pathCandidate
      [] s = "link"    -> disc.linkCandidate
      [] s = "browser" -> disc.browserCandidate
      [] s = "sitemap" -> disc.sitemapCandidate

\* the strategy whose candidate the call returned, 0 when it returned none
AcceptedAt ==
    IF disc.pc # "done" \/ disc.result.kind # "return"
       \/ disc.result.discoveredVia \in {"manual", "pdf"}
    THEN 0
    ELSE CHOOSE k \in 1..4 :
            /\ Strategies[k] \in disc.ran
            /\ \A j \in 1..4 : Strategies[j] \in disc.ran => j <= k

\* C25: in full mode the strategies run in the order path probe, link-text
\* crawl, browser crawl (only with a renderer), sitemap scan: a strategy has
\* issued a request only if every earlier strategy returned, with no
\* candidate or with a PDF one that was not taken as the result, and once a
\* candidate is returned as the result no later strategy has issued a request.
C25_StrategiesInOrder ==
    (disc.pc # "idle" /\ ~disc.fast) =>
       /\ \A k \in 1..4 : \A j \in 1..(k - 1) :
             StrategyBegun(Strategies[k]) =>
                /\ Strategies[j] \in disc.ran \/ (Strategies[j] = "browser" /\ ~disc.browser)
                /\ StrategyCandidate(Strategies[j]) = NoCandidate
                   \/ StrategyCandidate(Strategies[j]).isPdf
                /\ StrategyCandidate(Strategies[j]).via # "path_guess"
       /\ ~disc.browser => ~StrategyBegun("browser") /\ "browser" \notin disc.ran
       /\ AcceptedAt # 0 =>
             /\ disc.result.jobsUrl = StrategyCandidate(Strategies[AcceptedAt]).url
             /\ disc.result.discoveredVia = StrategyCandidate(Strategies[AcceptedAt]).via
             /\ \A k \in (AcceptedAt + 1)..4 : ~StrategyBegun(Strategies[k])

\* A full call with a renderer went through all four strategies and returned
\* the sitemap's candidate.
C25_AllFourInTurn ==
    /\ disc.pc = "done"
    /\ ~disc.fast /\ disc.browser
    /\ disc.ran = {"path", "link", "browser", "sitemap"}
    /\ disc.probes = Len(FullPaths)
    /\ disc.linkFetches >= 2
    /\ disc.pagesOpened = 1
    /\ disc.sitemapFetches = 1
    /\ disc.result.discoveredVia = "sitemap"
    /\ disc.linkCandidate.isPdf

\* ---- C26 ----
\* the strategy whose candidate the call returned, in either mode
AcceptedStrategy ==
    IF disc.pc # "done" \/ disc.result.kind # "return"
       \/ disc.result.discoveredVia \in {"manual", "pdf"}
    THEN "none"
    ELSE IF disc.fast THEN (IF "path" \in disc.ran THEN "path" ELSE "link")
    ELSE Strategies[AcceptedAt]

NonPdf(c) == c # NoCandidate /\ ~c.isPdf

\* C26 as stated: a candidate a strategy's result is taken from is scored 100
\* or at least 80, and a non-PDF candidate scored lower does not end the
\* cascade.
C26_OnlyStrongHitsAccepted ==
    /\ AcceptedStrategy # "none" => StrategyCandidate(AcceptedStrategy).score >= 80
    /\ \A k \in 1..4 :
          (Strategies[k] \in disc.ran /\ NonPdf(StrategyCandidate(Strategies[k]))
             /\ StrategyCandidate(Strategies[k]).score < 80)
          => AcceptedStrategy # Strategies[k]

\* C26: discoverJobsUrl takes as its result the candidate of the first
\* strategy that returns a non-PDF candidate, whatever its score (and, in
\* full mode, a path-probe candidate found by the keyword test even when it
\* is a PDF); a path-probe candidate taken is scored 100 or 80, candidates of
\* the other strategies are taken with any score above 0.
C26_FirstNonPdfCandidateAccepted ==
    /\ AcceptedStrategy # "none" =>
          LET c == StrategyCandidate(AcceptedStrategy) IN
          /\ c # NoCandidate
          /\ c.score > 0
          /\ ~c.isPdf \/ (~disc.fast /\ AcceptedStrategy = "path" /\ c.via = "path_guess")
          /\ AcceptedStrategy = "path" => c.score \in {80, 100}
          /\ disc.result.jobsUrl = c.url
          /\ disc.result.discoveredVia = c.via
    /\ \A k \in 1..4 :
          (Strategies[k] \in disc.ran /\ NonPdf(StrategyCandidate(Strategies[k])))
          => AcceptedStrategy = Strategies[k]

\* A full call returned a link of the homepage whose text scored 1, and went
\* no further.
C26_WeakLinkEndsCascade ==
    /\ disc.pc = "done"
    /\ ~disc.fast /\ disc.browser
    /\ AcceptedStrategy = "link"
    /\ disc.linkCandidate.score = 1
    /\ disc.result.discoveredVia = "link_text"
    /\ disc.pagesOpened = 0
    /\ disc.sitemapFetches = 0

\* ---- C27 ----
HeldCandidates ==
    <<disc.pathCandidate, disc.linkCandidate, disc.browserCandidate, disc.sitemapCandidate>>

C28_BestNonPdfAnchorReturned ==
    /\ disc.linkFetches <= 4
    /\ "link" \in disc.ran => disc.linkCandidate = disc.linkNonPdf

\* The crawl scored a PDF anchor at 2 and a jobs anchor at 1 and returned the
\* PDF anchor; the call, without a renderer, ended with the PDF as its last
\* resort.
C28_PdfAnchorHidJobsAnchor ==
    /\ disc.pc = "done"
    /\ ~disc.fast /\ ~disc.browser
    /\ "link" \in disc.ran
    /\ disc.linkCandidate.isPdf
    /\ disc.linkCandidate.score = 2
    /\ disc.linkNonPdf # NoCandidate
    /\ disc.linkNonPdf.score = 1
    /\ disc.result.discoveredVia = "pdf"
    /\ disc.result.jobsUrl = disc.linkCandidate.url

\* ---- C29 ----
EmptyDiscovery ==
    [kind |-> "return", jobsUrl |-> EmptyUrl, discoveredVia |-> "manual",
     notes |-> "No reliable jobs URL discovered automatically."]

\* C29: in fast mode no /sitemap.xml request is issued, no browser page is
\* opened, the link-text crawl requests the homepage only, at most the three
\* paths /careers, /jobs and /employment are probed, every request has
\* retries = 0, and the result is the crawl's non-PDF candidate, the probe's
\* non-PDF candidate, a PDF one of the two returned, or the explicit empty
\* result.
C29_FastModeTrimmed ==
    (disc.pc # "idle" /\ disc.fast) =>
       /\ disc.sitemapFetches = 0
       /\ disc.pagesOpened = 0
       /\ disc.pc \notin {"sitemap", "browserNewPage", "browserGoto", "browserClose"}
       /\ disc.ran \subseteq {"link", "path"}
       /\ disc.pc = "linkPage" => disc.queue = <<cleanUrl(disc.homepageUrl)>>
       /\ disc.linkFetches <= 2
       /\ disc.probes <= 3
       /\ disc.pc = "probe" =>
             /\ disc.pathIdx = disc.probes
             /\ << <<"careers">>, <<"jobs">>, <<"employment">> >>[disc.pathIdx]
                   = DiscPaths(disc)[disc.pathIdx]
       /\ disc.retries \subseteq {0}
       /\ disc.pc = "done" =>
             /\ disc.result.kind = "return"
             /\ \/ disc.homepageUrl = EmptyUrl /\ disc.result.discoveredVia = "manual"
                \/ \E c \in {disc.linkCandidate, disc.pathCandidate} :
                      /\ NonPdf(c)
                      /\ disc.result = MkDiscovery(c.url, c.via, "")
                \/ \E c \in {disc.linkCandidate, disc.pathCandidate} :
                      /\ c # NoCandidate /\ c.isPdf
                      /\ disc.result.jobsUrl = c.url
                      /\ disc.result.discoveredVia = "pdf"
                \/ disc.result = EmptyDiscovery

\* A fast call requested the homepage twice, probed the three paths and ended
\* with the PDF the probe had held.
C29_FastProbedThreePaths ==
    /\ disc.pc = "done"
    /\ disc.fast
    /\ disc.linkFetches = 2
    /\ disc.probes = 3
    /\ disc.retries = {0}
    /\ disc.pathCandidate.isPdf
    /\ disc.linkCandidate = NoCandidate
    /\ disc.result.discoveredVia = "pdf"

\* ---- C30 ----
\* the request URLs observed so far that match a known ATS pattern
ObservedAtsRequests ==
    {disc.requestUrls[i] : i \in {j \in 1..Len(disc.requestUrls) :
                                     isKnownAtsUrl(disc.requestUrls[j])}}

PickSet == {disc.candidates[k] : k \in 1..Len(disc.candidates)}

\* C30 as stated: when the browser crawl ends, also after a failed
\* navigation, every observed request URL matching a known ATS pattern is in
\* the set the result is picked from, as a candidate scored 90, above every
\* anchor candidate.
C30_ObservedRequestsArePicked ==
    disc.pc = "browserClose" =>
       /\ \A r \in ObservedAtsRequests :
             MkCandidate(cleanUrl(r), 90, "link_text", FALSE) \in PickSet
       /\ \A c \in PickSet : c.score <= 90

\* The first page loaded and issued a request to a known ATS, the navigation
\* to the second page failed, and the crawl ended with a pick set that holds
\* the first page's anchors but not the request.
C30_RequestLostByFailedNavigation ==
    /\ disc.pc = "browserClose"
    /\ "goto" \in disc.failures
    /\ Cardinality(disc.visited) = 2
    /\ ObservedAtsRequests # {}
    /\ PickSet # {}
    /\ \A c \in PickSet : c.score < 90

InBrowserCrawl == disc.pc \in {"browserNewPage", "browserGoto", "browserClose"}

BrowserCrawlBounds ==
    /\ Len(disc.navigated) <= 3
    /\ \A i, j \in 1..Len(disc.navigated) : i # j => disc.navigated[i] # disc.navigated[j]
    /\ disc.queuePeak <= 2
    /\ InBrowserCrawl => Len(disc.queue) <= 2
    /\ \A u \in disc.enqueued : u.kind = "url" /\ u.host = disc.homepageUrl.host

\* C31: the browser-assisted crawl always terminates: a call navigates to at
\* most 3 pages, never to the same cleaned URL twice, its queue never holds
\* more than 2 pending URLs, and only pages on the homepage's host are enqueued.
C31_BrowserCrawlTerminatesBounded ==
    /\ []BrowserCrawlBounds
    /\ (InBrowserCrawl ~> ~InBrowserCrawl)

\* A crawl that navigated to three pages, skipped a target it had visited,
\* filled its queue and stopped with a page still queued.
C31_ThreePagesQueueFull ==
    /\ disc.pc = "browserClose"
    /\ Len(disc.navigated) = 3
    /\ disc.queuePeak = 2
    /\ disc.queue # <<>>
    /\ disc.enqueued # {}
    /\ disc.failures = {}

\* No step removes or replaces an entry of the cache.
CacheEntriesKept ==
    \A k \in DOMAIN SEARCH_CACHE :
        k \in DOMAIN SEARCH_CACHE' /\ SEARCH_CACHE'[k] = SEARCH_CACHE[k]

\* No search entered while its key is cached issues a request.
CachedSearchIssuesNoRequest ==
    \A p \in Callers :
        (callers[p].pc = "loop" /\ callers'[p].pc = "awaitSearch")
            => CacheKey(normalizeWhitespace(callers'[p].query)) \notin DOMAIN SEARCH_CACHE

\* C32: the search cache is populated on first use and never invalidated:
\* once a list (possibly empty) is stored for a normalized query, the entry
\* is never removed or replaced, and every later search for a query with the
\* same normalized form issues no request.
C32_CacheEntriesNeverReplaced ==
    [][CacheEntriesKept /\ CachedSearchIssuesNoRequest]_vars

\* Two searches for one key both missed the cache; one stored the candidates
\* of its page and the other then stored the empty list over them.
C32_StoredListOverwrittenByEmpty ==
    \E p, q \in Callers :
        /\ p # q
        /\ callers[p].pc = "loop" /\ callers[p].searched
        /\ callers[q].pc = "loop" /\ callers[q].searched
        /\ callers[p].key = callers[q].key
        /\ callers[p].entryCached = NoEntry /\ callers[q].entryCached = NoEntry
        /\ ~callers[p].entryTripped /\ ~callers[q].entryTripped
        /\ callers[p].got # <<>>
        /\ callers[q].got = <<>>
        /\ ~braveSearchUnavailable
        /\ SEARCH_CACHE[callers[p].key] = <<>>

\* The greatest score that a scored candidate had, and the first candidate
\* scored with it.
MaxSeenScore == CHOOSE m \in {s.score : s \in res.seen} : \A s \in res.seen : s.score <= m

FirstWithMaxScore == CHOOSE s \in res.seen : s.score = MaxSeenScore

\* The query loop of the call ran or is running.
SearchPathTaken ==
    /\ res.tokens # <<>>
    /\ res.pc \in {"search", "done"}
    /\ res.result.source # "wikidata"

\* The value returned is the first of the best-scoring candidates when their
\* score is 4 or more, and null otherwise.
BestOfAllReturned ==
    res.pc = "done" =>
        /\ res.result.source = "search" <=> (res.seen # {} /\ MaxSeenScore >= 4)
        /\ res.result.source = "search" =>
              /\ res.result.score = MaxSeenScore
              /\ res.resultUrl = cleanUrl(FirstWithMaxScore.url)
              /\ res.resultVia = FirstWithMaxScore.discoveredVia

\* Once a scored candidate had the stop score, nothing more was scored and no
\* further query was issued; without one, every query was issued in turn.
StoppedAtStopScore ==
    /\ res.pc = "search" =>
          /\ res.stopAt.scored = 0
          /\ res.searchRequests = res.queryIdx - 1
          /\ res.queryIdx <= QueryCount(res.fn, res.orgType, res.hasHomepage)
    /\ res.pc = "done" =>
          IF res.stopAt.scored = 0
          THEN /\ res.searchRequests = QueryCount(res.fn, res.orgType, res.hasHomepage)
               /\ \A s \in res.seen : s.score < StopScore(res.fn)
          ELSE /\ res.candidatesScored = res.stopAt.scored
               /\ res.searchRequests = res.stopAt.requests
               /\ res.lastCall.scored.score >= StopScore(res.fn)

\* C33: on its search path resolveHomepageViaSearch issues its queries in
\* order and returns a result if and only if the best score over all scored
\* candidates is 4 or more; once a candidate scores 9 or more no further
\* candidate is scored and no further query is issued; among candidates of
\* equal score the first one scored is kept.
C33_BestOfAllFirstOnTies ==
    (res.fn = "homepage" /\ SearchPathTaken) => (BestOfAllReturned /\ StoppedAtStopScore)

\* resolveHomepageViaSearch returned a candidate scored 4 after it had scored
\* another candidate with the same score and a different URL.
C33_LaterTieNotTaken ==
    /\ res.pc = "done"
    /\ res.fn = "homepage"
    /\ res.result = [source |-> "search", score |-> 4]
    /\ res.lastCall.scored.score = 4
    /\ res.lastCall.scored.url # res.bestUrl
    /\ res.resultUrl = cleanUrl(res.bestUrl)

\* The query loop of resolveJobsViaSearch has called scoreJobsCandidate.
JobsCandidateScored == res.fn = "jobs" /\ res.lastCall.candidate.kind # "empty"

\* C34, as stated: every candidate whose URL is a known ATS URL is scored 100,
\* ends the call and is returned.
C34_AtsCandidateAlwaysImmediate ==
    (JobsCandidateScored /\ isKnownAtsUrl(res.lastCall.candidate))
    => /\ res.lastCall.scored.score = 100
       /\ res.pc = "done"
       /\ res.result = [source |-> "search", score |-> 100]

\* C34, amended: scoreJobsCandidate gives 100 exactly when the candidate's
\* host is not blocked, its fetch answered with a success status and the
\* cleaned final URL is a known ATS URL; such a candidate ends the call and
\* its final URL is returned.  A candidate whose own URL is a known ATS URL
\* but whose fetch failed only has 10 added to its score.  Any other result
\* is the first of the best-scoring candidates, with a score of 4 or more,
\* and the loop stops once the best score is 12 or more.
C34_FetchedAtsUrlImmediate ==
    /\ JobsCandidateScored =>
          /\ res.lastCall.scored.score = 100
                <=> /\ ~isBlockedHost(parseHostname(res.lastCall.candidate))
                    /\ res.lastCall.page.ok
                    /\ isKnownAtsUrl(cleanUrl(res.lastCall.page.url))
          /\ res.lastCall.scored.score = 100 =>
                /\ res.pc = "done"
                /\ res.result = [source |-> "search", score |-> 100]
                /\ res.resultUrl = cleanUrl(res.lastCall.page.url)
          /\ (isKnownAtsUrl(res.lastCall.candidate) /\ ~res.lastCall.page.ok) =>
                /\ res.lastCall.scored.score >= 10
                /\ res.lastCall.scored.score < 100
    /\ (res.fn = "jobs" /\ SearchPathTaken) => (BestOfAllReturned /\ StoppedAtStopScore)

\* resolveJobsViaSearch scored a known ATS URL whose fetch failed at 10, went
\* on, and returned the ATS URL to which a later candidate redirected.
C34_AtsCandidateScoredTen ==
    /\ res.pc = "done"
    /\ res.fn = "jobs"
    /\ \E s \in res.seen : s.url = NeogovHome /\ s.score = 10
    /\ ~isKnownAtsUrl(res.lastCall.candidate)
    /\ res.lastCall.scored.score = 100
    /\ res.resultUrl = IcimsJobs

\* C35: no URL returned by resolveHomepageViaSearch or resolveJobsViaSearch
\* has a host on the block-list, also when an allowed candidate was
\* redirected to a blocked host while it was fetched for scoring.
C35_NoBlockedHostReturned ==
    (res.pc = "done" /\ res.result.source = "search")
    => ~isBlockedHost(parseHostname(res.resultUrl))

\* resolveHomepageViaSearch returned a URL on a blocked host: the candidate's
\* own host was allowed and its fetch was redirected.
C35_RedirectToBlockedHostReturned ==
    /\ res.pc = "done"
    /\ res.fn = "homepage"
    /\ res.result.source = "search"
    /\ isBlockedHost(parseHostname(res.resultUrl))
    /\ ~isBlockedHost(parseHostname(res.lastCall.candidate))
    /\ res.lastCall.page.ok
    /\ res.resultUrl = cleanUrl(res.lastCall.page.url)

\* processOrg number i calls one of its callees in this step.
CallMade(i) ==
    batch'.orgs[i].pc \notin {batch.orgs[i].pc, "done"}

ControlFlowStep(i) ==
    LET o == batch.orgs[i]
        n == batch'.orgs[i]
    IN  CallMade(i) =>
          /\ n.call.fn = "resolveHomepageViaSearch" =>
                /\ o.pc = "idle"
                /\ cleanUrl(batch.seeds[i]) = EmptyUrl
          /\ n.call.fn = "resolveJobsViaSearch" =>
                /\ n.settled.fn = "discoverJobsUrl"
                /\ n.settled.state = "returned"
                /\ cleanUrl(n.settled.ret) = EmptyUrl
          /\ n.call.fn = "classifyJobsSource" =>
                /\ n.call.arg # EmptyUrl
                /\ n.call.arg = n.jobsUrl
                /\ \/ /\ n.settled.fn = "discoverJobsUrl"
                      /\ n.settled.state = "returned"
                      /\ n.call.arg = cleanUrl(n.settled.ret)
                   \/ /\ n.settled.fn = "resolveJobsViaSearch"
                      /\ n.settled.state = "returned"
                      /\ n.call.arg = n.settled.ret
                   \/ /\ n.settled.fn = "classifyJobsSource"
                      /\ n.settled.state = "threw"
                      /\ n.call.arg = o.call.arg

\* C36: processOrg calls resolveHomepageViaSearch only as its first call and
\* only when the seed has no homepage; it calls resolveJobsViaSearch only
\* when discoverJobsUrl has just returned an empty jobs URL; it calls
\* classifyJobsSource only on the non-empty jobs URL that discoverJobsUrl or
\* resolveJobsViaSearch has just returned (or, retrying, on the same URL).
C36_DocumentedControlFlow ==
    [][\A i \in 1..Len(batch.orgs) : ControlFlowStep(i)]_vars

\* The seed had no homepage, the cascade returned an empty jobs URL and the
\* classifier is now running on the URL that resolveJobsViaSearch returned.
C36_ClassifyingResearchedJobsUrl ==
    \E i \in 1..Len(batch.orgs) :
        /\ cleanUrl(batch.seeds[i]) = EmptyUrl
        /\ batch.orgs[i].pc = "classify"
        /\ batch.orgs[i].settled.fn = "resolveJobsViaSearch"
        /\ batch.orgs[i].call = [fn |-> "classifyJobsSource", arg |-> batch.orgs[i].settled.ret]

\* C37: the path probe takes a candidate (a known-ATS hit, a keyword match
\* or a PDF to hold) only from a response whose status is below 400.
C37_CandidateOnlyFromSuccessStatus ==
    disc.candStatus # 0 => disc.candStatus < 400

\* A probe answered with status 404 and a final URL on a known ATS, and
\* discoverJobsUrl returned that URL as found by path_guess.
C37_AtsAcceptedFromNotFound ==
    /\ disc.pc = "done"
    /\ disc.candStatus = 404
    /\ disc.result.discoveredVia = "path_guess"
    /\ isKnownAtsUrl(disc.result.jobsUrl)
    /\ disc.result.jobsUrl = disc.hitUrl

\* The OrgRecord r as a row of data/orgs.csv read by the weekly monitor.
AsOrgRow(r) ==
    MkOrg("municipality", r.jobs_url # EmptyUrl, r.jobs_url, r.confidence,
          r.jobs_source_type, r.adapter)

RecordWellFormed(r) ==
    /\ r.jobs_source_type = "manual_review" <=> r.jobs_url = EmptyUrl
    /\ r.jobs_url = EmptyUrl =>
          /\ r.adapter = "manual"
          /\ r.confidence = 0
          /\ r.discovered_via = "manual"
    /\ r.jobs_url # EmptyUrl =>
          /\ r.adapter # "manual"
          /\ r.confidence >= 50
          /\ isEligible(AsOrgRow(r))

\* C38: every record returned by processOrg has jobs_source_type
\* manual_review exactly when its jobs_url is empty, and then adapter manual,
\* confidence 0 and discovered_via manual; a record with a jobs_url has an
\* adapter other than manual and a confidence of at least 0.5 and is eligible
\* for the weekly monitor.  The second conjunct takes the record that each
\* of the ten results of classifyJobsSource would give.
C38_RecordsWellFormed ==
    \A i \in 1..Len(batch.orgs) :
        /\ batch.orgs[i].outcome = "return" => RecordWellFormed(batch.orgs[i].record)
        /\ batch.orgs[i].pc \in {"classify", "classifyRetry"} =>
              \A classification \in TenResults :
                  RecordWellFormed(OrgReturn(batch.orgs[i], classification).record)

\* One batch returned a record with a classified jobs URL at the lowest
\* confidence and a manual-review record made by the outer catch after the
\* classifier rejected twice.
C38_EligibleBesideManualRecord ==
    \E i, j \in 1..Len(batch.orgs) :
        /\ batch.orgs[i].outcome = "return"
        /\ batch.orgs[i].record.jobs_url # EmptyUrl
        /\ batch.orgs[i].record.confidence = 50
        /\ batch.orgs[j].outcome = "return"
        /\ batch.orgs[j].failed
        /\ batch.orgs[j].settled.fn = "classifyJobsSource"
        /\ batch.orgs[j].record.jobs_url = EmptyUrl

\* The indices whose mapper call has started and not settled.
InFlight ==
    {i \in 1..Len(batch.orgs) : batch.orgs[i].pc \notin {"idle", "done"}}

\* C39: mapWithConcurrency calls mapper at most once for an index, always
\* with the item of that index, and has at most min(concurrency,
\* items.length) calls in flight; a result stored at an index is the value
\* of the mapper call of that index; when the returned promise is fulfilled
\* mapper has been called exactly once for every index and results[i] is the
\* value produced for items[i].
C39_OncePerIndexBoundedInOrder ==
    /\ Cardinality(InFlight) <= Min(batch.concurrency, Len(batch.seeds))
    /\ \A i \in 1..Len(batch.seeds) :
          /\ batch.invocations[i] \in {<<>>, <<batch.seeds[i]>>}
          /\ batch.results[i] # NoRecord =>
                /\ batch.orgs[i].outcome = "return"
                /\ batch.results[i] = batch.orgs[i].record
    /\ batch.outcome = "returned" =>
          \A i \in 1..Len(batch.seeds) :
              /\ batch.invocations[i] = <<batch.seeds[i]>>
              /\ batch.orgs[i].outcome = "return"
              /\ batch.results[i] = batch.orgs[i].record

\* Two items and two workers: the result of the second item is stored while
\* the mapper call of the first is still in flight.
C39_SecondStoredBeforeFirst ==
    /\ Len(batch.seeds) = 2
    /\ batch.concurrency = 2
    /\ batch.results[2] # NoRecord
    /\ batch.results[2] = batch.orgs[2].record
    /\ 1 \in InFlight

\* The call t of schedule has started its task.
Started(t) == tasks[t].pc \in {"running", "done"}

\* The call t waits only behind a call for its own host.
QueuedBehindOwnHost(t) ==
    tasks[t].previous # 0 => tasks[tasks[t].previous].domain = tasks[t].domain

\* C40: a task that returns or throws releases the gate of its host, so when
\* every task for a host settles, every call of schedule for that host
\* starts its task, whatever the order of the calls and whether or not the
\* tasks for another host ever settle; a call waits only behind calls for
\* its own host.
C40_QueuedRequestsStart ==
    /\ [](\A t \in TaskIds : tasks[t].pc # "new" => QueuedBehindOwnHost(t))
    /\ [](\A t \in TaskIds : tasks[t].pc = "done" => tasks[t].released)
    /\ \A t \in TaskIds :
          (tasks[t].pc = "awaitPrevious" /\ tasks[t].domain = FairHost) ~> Started(t)

\* A task for FairHost threw, the next call for that host has started its
\* task, and a task for the other host is still running.
C40_StartedAfterThrowBesideOtherHost ==
    \E t, u, v \in TaskIds :
        /\ tasks[t].domain = FairHost
        /\ tasks[t].outcome = "threw"
        /\ tasks[u].previous = t
        /\ tasks[u].pc = "running"
        /\ tasks[v].pc = "running"
        /\ tasks[v].domain # FairHost

====
